---- MODULE Spec2Model ----
(***************************************************************************)
(* vite-plugin-fakery: the request handler built by createEndpointHandler  *)
(* (src/src/handlers.ts), the value resolver (src/src/fakerResolver.ts)    *)
(* and the process-wide state they share: the response cache and the      *)
(* generator's seed state.                                                 *)
(*                                                                         *)
(* JavaScript strings are tuples of one-character strings, so that         *)
(* split, includes, replace and toLowerCase are computed, not assumed.     *)
(* JavaScript values are tagged records [k |-> kind, v |-> content].       *)
(***************************************************************************)
EXTENDS Integers, Sequences, FiniteSets, TLC

VARIABLES
    endpoint,    \* the EndpointConfig the handler was created with
    cacheStore,  \* handlers.ts:10   cache key -> cached payload
    storedAt,    \* clock reading at which each cache entry was stored
    fakerState,  \* the generator's process-wide seed state
    now,         \* wall clock, in milliseconds
    reqs,        \* the requests made so far, in arrival order
    optionsOrPath, \* index.ts:14  what vitePluginFakery is called with
    plugin,      \* "none", then "thrown" or "created", then "configured"
    middlewares  \* index.ts:36  the routes and handlers given to the server

vars == <<endpoint, cacheStore, storedAt, fakerState, now, reqs,
          optionsOrPath, plugin, middlewares>>

\* the plugin's own state
pluginVars == <<optionsOrPath, plugin, middlewares>>

----------------------------------------------------------------------------
(* Bounds of the model *)

\* number of requests in one behaviour
MaxReq == 2

\* number of clock ticks in one behaviour
MaxTicks == 2

----------------------------------------------------------------------------
(* JavaScript values *)

Str(s)  == [k |-> "str", v |-> s]
Num(n)  == [k |-> "num", v |-> n]
Bool(b) == [k |-> "bool", v |-> b]
Arr(s)  == [k |-> "arr", v |-> s]
Obj(f)  == [k |-> "obj", v |-> f]
Undefined == [k |-> "undefined", v |-> 0]
Null      == [k |-> "null", v |-> 0]
NaN       == [k |-> "NaN", v |-> 0]

\* the empty mapping {}
EmptyObj == Obj(<<>>)

\* An object is the sequence of its <<key, value>> entries in insertion order.
HasKey(entries, key) == \E i \in 1..Len(entries) : entries[i][1] = key

\* obj[key]
Prop(x, key) ==
    IF x.k = "obj" /\ HasKey(x.v, key)
    THEN x.v[CHOOSE i \in 1..Len(x.v) : x.v[i][1] = key][2]
    ELSE Undefined

\* Object.fromEntries / object spread over a sequence of <<key, value>>
\* pairs: a key keeps the position of its first occurrence and the value of
\* its last
RECURSIVE FromEntries(_)
FromEntries(entries) ==
    IF entries = <<>> THEN <<>>
    ELSE LET n    == Len(entries)
             rest == FromEntries(SubSeq(entries, 1, n - 1))
             key  == entries[n][1]
         IN IF HasKey(rest, key)
            THEN [i \in 1..Len(rest) |->
                     IF rest[i][1] = key THEN entries[n] ELSE rest[i]]
            ELSE Append(rest, entries[n])

\* Object.values(obj)
Values(x) == [i \in 1..Len(x.v) |-> x.v[i][2]]

\* the truthiness of a value (what `||`, `&&` and `if` test)
Truthy(x) ==
    CASE x.k = "undefined" -> FALSE
      [] x.k = "null"      -> FALSE
      [] x.k = "NaN"       -> FALSE
      [] x.k = "num"       -> x.v # 0
      [] x.k = "str"       -> x.v # <<>>
      [] x.k = "bool"      -> x.v
      [] OTHER             -> TRUE

\* a || b
Or(a, b) == IF Truthy(a) THEN a ELSE b

\* a ?? b
Coalesce(a, b) == IF a.k \in {"undefined", "null"} THEN b ELSE a

----------------------------------------------------------------------------
(* Strings *)

Digits == <<"0", "1", "2", "3", "4", "5", "6", "7", "8", "9">>

DigitValue(c) == CHOOSE d \in 0..9 : Digits[d + 1] = c

IsDigit(c) == \E d \in 0..9 : Digits[d + 1] = c

\* the decimal text of a natural number
RECURSIVE NatText(_)
NatText(n) ==
    IF n < 10 THEN <<Digits[n + 1]>>
    ELSE NatText(n \div 10) \o <<Digits[(n % 10) + 1]>>

IntText(n) == IF n < 0 THEN <<"-">> \o NatText(-n) ELSE NatText(n)

\* String(x), `${x}`
RECURSIVE ToText(_)
ToText(x) ==
    CASE x.k = "str"       -> x.v
      [] x.k = "num"       -> IntText(x.v)
      [] x.k = "bool"      -> IF x.v THEN <<"t","r","u","e">>
                                     ELSE <<"f","a","l","s","e">>
      [] x.k = "undefined" -> <<"u","n","d","e","f","i","n","e","d">>
      [] x.k = "null"      -> <<"n","u","l","l">>
      [] x.k = "NaN"       -> <<"N","a","N">>
      [] x.k = "arr"       -> IF x.v = <<>> THEN <<>>
                              ELSE IF Len(x.v) = 1 THEN ToText(x.v[1])
                              ELSE ToText(x.v[1]) \o <<",">>
                                   \o ToText(Arr(Tail(x.v)))
      [] OTHER             -> <<"[","o","b","j","e","c","t"," ",
                                "O","b","j","e","c","t","]">>

\* the value of the leading run of digits of s, from position i
RECURSIVE DigitRun(_, _, _)
DigitRun(s, i, acc) ==
    IF i > Len(s) \/ ~IsDigit(s[i]) THEN acc
    ELSE DigitRun(s, i + 1, 10 * acc + DigitValue(s[i]))

\* parseInt(s, 10): optional sign, then the leading digits; NaN without one
ParseInt(s) ==
    LET signed == s # <<>> /\ s[1] \in {"-", "+"}
        first  == IF signed THEN 2 ELSE 1
    IN IF first > Len(s) \/ ~IsDigit(s[first]) THEN NaN
       ELSE IF signed /\ s[1] = "-" THEN Num(-DigitRun(s, first, 0))
       ELSE Num(DigitRun(s, first, 0))

\* s.includes(t)
Includes(s, t) ==
    \E i \in 1..(Len(s) - Len(t) + 1) : SubSeq(s, i, i + Len(t) - 1) = t

UpperCase == <<"A", "B", "H", "N">>
LowerCase == <<"a", "b", "h", "n">>

\* s.toLowerCase(), over the letters the model's strings use
ToLowerCase(s) ==
    [i \in 1..Len(s) |->
        IF \E j \in 1..Len(UpperCase) : UpperCase[j] = s[i]
        THEN LowerCase[CHOOSE j \in 1..Len(UpperCase) : UpperCase[j] = s[i]]
        ELSE s[i]]

\* s.replace(/\.\./g, '.'): left to right, non-overlapping
RECURSIVE UnescapePeriods(_)
UnescapePeriods(s) ==
    IF Len(s) < 2 THEN s
    ELSE IF s[1] = "." /\ s[2] = "."
         THEN <<".">> \o UnescapePeriods(SubSeq(s, 3, Len(s)))
         ELSE <<s[1]>> \o UnescapePeriods(Tail(s))

\* s.split('.')
RECURSIVE SplitDots(_, _)
SplitDots(s, cur) ==
    IF s = <<>> THEN <<cur>>
    ELSE IF s[1] = "." THEN <<cur>> \o SplitDots(Tail(s), <<>>)
    ELSE SplitDots(Tail(s), Append(cur, s[1]))

----------------------------------------------------------------------------
(* The generator (@faker-js/faker): a seeded pseudo-random source.  Each    *)
(* generator call returns a value fixed by the seed state and advances it. *)

\* number of seed states of the generator
FakerMod == 4

Nouns == << <<"a", "b">>, <<"H", "a">>, <<"n", "b">> >>

\* faker.seed(n)
FakerSeed(n) == n % FakerMod

FakerNext(s) == (s + 1) % FakerMod

Fn(name) == [k |-> "fn", v |-> name]

sWord   == <<"w", "o", "r", "d">>
sNoun   == <<"n", "o", "u", "n">>
sNumber == <<"n", "u", "m", "b", "e", "r">>
sInt    == <<"i", "n", "t">>

\* the members of the faker object that the model's paths can reach
faker ==
    Obj(<< <<sWord, Obj(<< <<sNoun, Fn("noun")>> >>)>>,
           <<sNumber, Obj(<< <<sInt, Fn("int")>> >>)>> >>)

\* what (faker) => faker.helpers.maybe(() => faker.number.int()) returns in
\* successive seed states: a number, or undefined
Maybes == <<Num(6), Num(5), Undefined, Num(1)>>

\* calling a generator function in seed state s
Invoke(fn, s) ==
    [val |-> IF fn.v = "noun" THEN Str(Nouns[(s % Len(Nouns)) + 1])
             ELSE IF fn.v = "maybe" THEN Maybes[(s % Len(Maybes)) + 1]
             ELSE Num(s),
     st  |-> FakerNext(s)]

\* result = result?.[part] over the parts of a path
RECURSIVE Lookup(_, _)
Lookup(result, parts) ==
    IF parts = <<>> THEN result
    ELSE Lookup(Prop(result, parts[1]), Tail(parts))

\* new Error(message)
Error(message) == [k |-> "error", v |-> message]

sInvalidFakerPath ==
    <<"I", "n", "v", "a", "l", "i", "d", " ", "F", "a", "k", "e", "r", " ",
      "p", "a", "t", "h", ":", " ">>

\* `Invalid Faker path: ${definition}`
InvalidFakerPath(definition) == Error(sInvalidFakerPath \o ToText(definition))

\* a failure that gives null in place of the error
ThrownAsNull(error, s) == [ok |-> TRUE, val |-> Null, st |-> s]

\* a call that throws the error in seed state s, and one that returns v
Thrown(error, s) == [ok |-> FALSE, val |-> error, st |-> s]
Returned(v, s) == [ok |-> TRUE, val |-> v, st |-> s]

\* resolveFakerValue(definition) in seed state s: the value returned, or the
\* 'Invalid Faker path' error, and the seed state it leaves
RECURSIVE resolveFakerValue(_, _)
RECURSIVE resolveAll(_, _, _)
\* the resolved values put together back to front
RECURSIVE resolveAllReversed(_, _, _)
resolveAllReversed(defs, i, s) ==
    IF i > Len(defs) THEN Returned(<<>>, s)
    ELSE LET head == resolveFakerValue(defs[i], s)
         IN IF ~head.ok THEN head
            ELSE LET rest == resolveAllReversed(defs, i + 1, head.st)
                 IN IF ~rest.ok THEN rest
                    ELSE Returned(rest.val \o <<head.val>>, rest.st)

resolveAll(defs, i, s) ==
    \* definition.map(resolveFakerValue) from element i on
    IF i > Len(defs) THEN Returned(<<>>, s)
    ELSE LET head == resolveFakerValue(defs[i], s)
         IN IF ~head.ok THEN head
            ELSE LET rest == resolveAll(defs, i + 1, head.st)
                 IN IF ~rest.ok THEN rest
                    ELSE Returned(<<head.val>> \o rest.val, rest.st)

resolveFakerValue(definition, s) ==
    CASE definition.k = "undefined" -> Thrown(InvalidFakerPath(definition), s)
      [] definition.k = "fn" ->
            LET r == Invoke(definition, s) IN Returned(r.val, r.st)
      [] definition.k = "str" ->
            LET result == Lookup(faker, SplitDots(definition.v, <<>>))
            IN IF result.k = "undefined"
               THEN Thrown(InvalidFakerPath(definition), s)
               ELSE IF result.k = "fn"
                    THEN LET r == Invoke(result, s) IN Returned(r.val, r.st)
                    ELSE Returned(result, s)
      [] definition.k = "arr" ->
            LET r == resolveAll(definition.v, 1, s)
            IN IF r.ok THEN Returned(Arr(r.val), r.st) ELSE r
      [] definition.k = "obj" ->
            LET r == resolveAll(Values(definition), 1, s)
            IN IF r.ok
               THEN Returned(Obj(FromEntries(
                        [i \in 1..Len(definition.v) |->
                            <<definition.v[i][1], r.val[i]>>])), r.st)
               ELSE r
      [] OTHER -> Returned(definition, s)

\* every string with a period read as a path
resolveResponsePropValueAnyPeriod(key, value, s) ==
    IF value.k = "str"
    THEN IF Includes(value.v, <<".">>)
         THEN resolveFakerValue(value, s)
         ELSE Returned(value, s)
    ELSE IF value.k \in {"num", "NaN", "bool"} THEN Returned(value, s)
    ELSE resolveFakerValue(value, s)

\* resolveResponsePropValue(key, value) in seed state s
resolveResponsePropValue(key, value, s) ==
    IF value.k = "str"
    THEN IF Includes(value.v, <<".">>) /\ ~Includes(value.v, <<".", ".">>)
         THEN resolveFakerValue(value, s)
         ELSE Returned(Str(UnescapePeriods(value.v)), s)
    ELSE IF value.k \in {"num", "NaN", "bool"} THEN Returned(value, s)
    ELSE resolveFakerValue(value, s)

----------------------------------------------------------------------------
(* Numbers: integers and NaN *)

IsNum(x) == x.k = "num"

\* a + b, a - b, a * b
Plus(a, b)  == IF IsNum(a) /\ IsNum(b) THEN Num(a.v + b.v) ELSE NaN
Minus(a, b) == IF IsNum(a) /\ IsNum(b) THEN Num(a.v - b.v) ELSE NaN
Times(a, b) == IF IsNum(a) /\ IsNum(b) THEN Num(a.v * b.v) ELSE NaN

\* Math.min(a, b), Math.max(a, b)
MathMin(a, b) ==
    IF IsNum(a) /\ IsNum(b) THEN (IF a.v <= b.v THEN a ELSE b) ELSE NaN
MathMax(a, b) ==
    IF IsNum(a) /\ IsNum(b) THEN (IF a.v >= b.v THEN a ELSE b) ELSE NaN

\* Math.ceil(a / b) for numbers a and b # 0
CeilDiv(a, b) ==
    IF b.v > 0 THEN Num(-((-a.v) \div b.v)) ELSE Num(-(a.v \div (-b.v)))

\* Number.isInteger(x) && x > 0
IsPositiveInteger(x) == IsNum(x) /\ x.v > 0

\* the length Array.from({length: x}) gives
ArrayLength(x) == IF IsNum(x) /\ x.v > 0 THEN x.v ELSE 0

----------------------------------------------------------------------------
(* The request URL's query: a sequence of <<name, value>> pairs *)

\* url.searchParams.get(name): the first value under the name, or null
SearchParamsGet(query, name) ==
    IF \E i \in 1..Len(query) : query[i][1] = name
    THEN Str(query[CHOOSE i \in 1..Len(query) :
                     /\ query[i][1] = name
                     /\ \A j \in 1..(i - 1) : query[j][1] # name][2])
    ELSE Null

\* url.searchParams.toString()
RECURSIVE SearchParamsText(_)
SearchParamsText(query) ==
    IF query = <<>> THEN <<>>
    ELSE LET pair == query[1][1] \o <<"=">> \o query[1][2]
         IN IF Len(query) = 1 THEN pair
            ELSE pair \o <<"&">> \o SearchParamsText(Tail(query))

\* a cache key that leaves the query string out
CacheKeyUrlOnly(e, query) == e.url.v \o <<"?">>

\* `${endpoint.url}?${queryParams}`
CacheKey(e, query) == e.url.v \o <<"?">> \o SearchParamsText(query)

----------------------------------------------------------------------------
(* Transforms *)

\* characters in code-unit order
CodeOrder ==
    <<" ", "&", "+", "-", ".", "0", "1", "2", "3", "4", "5", "6", "7", "8",
      "9", "=", "?", "A", "B", "H", "N", "a", "b", "d", "e", "f", "g", "h",
      "i", "k", "l", "m", "n", "o", "p", "q", "r", "s", "t", "u", "v", "w",
      "y">>

CharCode(c) ==
    IF \E i \in 1..Len(CodeOrder) : CodeOrder[i] = c
    THEN CHOOSE i \in 1..Len(CodeOrder) : CodeOrder[i] = c
    ELSE 0

\* s < t for strings
RECURSIVE TextLess(_, _)
TextLess(s, t) ==
    IF t = <<>> THEN FALSE
    ELSE IF s = <<>> THEN TRUE
    ELSE IF s[1] = t[1] THEN TextLess(Tail(s), Tail(t))
    ELSE CharCode(s[1]) < CharCode(t[1])

\* a < b for two numbers or two strings; every other pairing of the model's
\* values compares through NaN and is false
Less(a, b) ==
    IF IsNum(a) /\ IsNum(b) THEN a.v < b.v
    ELSE IF a.k = "str" /\ b.k = "str" THEN TextLess(a.v, b.v)
    ELSE FALSE

isValidSortOrder(order) ==
    order.k = "str" /\ order.v \in {<<"a", "s", "c">>, <<"d", "e", "s", "c">>}

\* the comparator of sortData: negative, zero or positive
SortCompare(a, b, sortField, order) ==
    LET valA == Prop(a, sortField)
        valB == Prop(b, sortField)
    IN IF valA.k = "undefined" \/ valB.k = "undefined" THEN 0
       ELSE IF Less(valA, valB)
            THEN (IF order = <<"d", "e", "s", "c">> THEN 1 ELSE -1)
       ELSE IF Less(valB, valA)
            THEN (IF order = <<"d", "e", "s", "c">> THEN -1 ELSE 1)
       ELSE 0

\* Array.prototype.sort(comparefn) as Node's engine runs it on an array of
\* fewer than 64 elements: the leading run is found (and reversed when it is
\* strictly descending), then every later element is placed by binary
\* insertion.  For a consistent comparefn this is the stable sorted order
\* every engine gives; sortData's comparefn is not consistent when only some
\* records lack the field, and the order is then the engine's.

\* the length of the run that starts the array; idx is the next position
RECURSIVE RunLength(_, _, _, _, _)
RunLength(data, sortField, order, isDescending, idx) ==
    IF idx > Len(data) THEN idx - 1
    ELSE IF isDescending
            = (SortCompare(data[idx], data[idx - 1], sortField, order) < 0)
         THEN RunLength(data, sortField, order, isDescending, idx + 1)
         ELSE idx - 1

Reverse(seq) == [i \in 1..Len(seq) |-> seq[Len(seq) + 1 - i]]

\* the array with its leading run of the given length made ascending
MakeRun(data, isDescending, run) ==
    IF isDescending
    THEN Reverse(SubSeq(data, 1, run)) \o SubSeq(data, run + 1, Len(data))
    ELSE data

\* the position binary search gives the pivot in work[left..right-1]
RECURSIVE BinarySearch(_, _, _, _, _, _)
BinarySearch(work, pivot, left, right, sortField, order) ==
    IF left >= right THEN left
    ELSE IF SortCompare(pivot, work[left + ((right - left) \div 2)],
                        sortField, order) < 0
         THEN BinarySearch(work, pivot, left, left + ((right - left) \div 2),
                           sortField, order)
         ELSE BinarySearch(work, pivot, left + ((right - left) \div 2) + 1,
                           right, sortField, order)

\* work with the element at start moved to position pos <= start
MoveTo(work, start, pos) ==
    SubSeq(work, 1, pos - 1) \o <<work[start]>>
    \o SubSeq(work, pos, start - 1) \o SubSeq(work, start + 1, Len(work))

RECURSIVE BinaryInsertionSort(_, _, _, _)
BinaryInsertionSort(work, start, sortField, order) ==
    IF start > Len(work) THEN work
    ELSE BinaryInsertionSort(
             MoveTo(work, start,
                    BinarySearch(work, work[start], 1, start,
                                 sortField, order)),
             start + 1, sortField, order)

SortFrom(data, sortField, order, isDescending, run) ==
    BinaryInsertionSort(MakeRun(data, isDescending, run), run + 1,
                        sortField, order)

\* sortData(data, sortField, order)
sortData(data, sortField, order) ==
    IF Len(data) < 2 THEN data
    ELSE SortFrom(data, sortField, order,
                  SortCompare(data[2], data[1], sortField, order) < 0,
                  RunLength(data, sortField, order,
                            SortCompare(data[2], data[1], sortField, order) < 0,
                            3))

\* data.filter(keep), keep given as the set of positions kept
RECURSIVE FilterAt(_, _, _)
FilterAt(data, kept, i) ==
    IF i > Len(data) THEN <<>>
    ELSE IF i \in kept THEN <<data[i]>> \o FilterAt(data, kept, i + 1)
    ELSE FilterAt(data, kept, i + 1)

\* filterData(data, filterField, filterValue)
filterData(data, filterField, filterValue) ==
    FilterAt(data,
             {i \in 1..Len(data) :
                 Includes(ToText(Prop(data[i], filterField)), filterValue)},
             1)

\* a search that looks at string-valued fields only
searchDataStringsOnly(data, searchValue) ==
    FilterAt(data,
             {i \in 1..Len(data) :
                 \E j \in 1..Len(data[i].v) :
                     /\ data[i].v[j][2].k = "str"
                     /\ Includes(ToLowerCase(data[i].v[j][2].v),
                                 ToLowerCase(searchValue))},
             1)

\* searchData(data, searchValue)
searchData(data, searchValue) ==
    LET lowercaseSearchValue == ToLowerCase(searchValue)
    IN FilterAt(data,
                {i \in 1..Len(data) :
                    \E j \in 1..Len(data[i].v) :
                        Includes(ToLowerCase(ToText(data[i].v[j][2])),
                                 lowercaseSearchValue)},
                1)

----------------------------------------------------------------------------
(* Names used by the handler *)

sQ          == <<"q">>
sSort       == <<"s", "o", "r", "t">>
sOrder      == <<"o", "r", "d", "e", "r">>
sFilter     == <<"f", "i", "l", "t", "e", "r">>
sSearch     == <<"s", "e", "a", "r", "c", "h">>
sPerPage    == <<"p", "e", "r", "_", "p", "a", "g", "e">>
sTotal      == <<"t", "o", "t", "a", "l">>
sTotalPages == <<"t", "o", "t", "a", "l", "_", "p", "a", "g", "e", "s">>
sPage       == <<"p", "a", "g", "e">>
sData       == <<"d", "a", "t", "a">>
sId         == <<"i", "d">>
sError      == <<"e", "r", "r", "o", "r">>
sAsc        == <<"a", "s", "c">>
sWhen       == <<"w", "h", "e", "n">>
sHeaders    == <<"h", "e", "a", "d", "e", "r", "s">>
sQuery      == <<"q", "u", "e", "r", "y">>
sStatus     == <<"s", "t", "a", "t", "u", "s">>
sStaticResponse == <<"s", "t", "a", "t", "i", "c",
                    "R", "e", "s", "p", "o", "n", "s", "e">>
sSimulated  == <<"S", "i", "m", "u", "l", "a", "t", "e", "d", " ",
                 "s", "e", "r", "v", "e", "r", " ", "e", "r", "r", "o", "r">>

\* default total number of items to generate
DEFAULT_TOTAL_ITEMS == 10

\* Math.random() returns draw / RandomRes for a draw in 0..RandomRes-1, and
\* errorRate is held in the same unit: Num(RandomRes) is the rate 1.0
RandomRes == 2

----------------------------------------------------------------------------
(* The stages of the handler *)

\* the method check with the negation lost
MethodRejectedInverted(e, req) ==
    /\ Truthy(e.methods)
    /\ \E i \in 1..Len(e.methods.v) : e.methods.v[i] = req.method

\* endpoint.methods && !endpoint.methods.includes(req.method)
MethodRejected(e, req) ==
    /\ Truthy(e.methods)
    /\ ~\E i \in 1..Len(e.methods.v) : e.methods.v[i] = req.method

\* whether Math.random() is called: the left operand of && is truthy
ErrorDrawn(e) == Truthy(e.errorRate)

\* the error draw compared the wrong way round
SimulatedErrorReversed(e, draw) == ErrorDrawn(e) /\ draw > e.errorRate.v

\* endpoint.errorRate && Math.random() < endpoint.errorRate
SimulatedError(e, draw) == ErrorDrawn(e) /\ draw < e.errorRate.v

\* a lookup that forgets the endpoint's cache option
CacheHitUnconditional(e, key, cache) == key \in DOMAIN cache

\* a lookup that never finds the key
CacheHitNever(e, key, cache) == FALSE

\* endpoint.cache && cacheStore.has(cacheKey)
CacheHit(e, key, cache) == Truthy(e.cache) /\ key \in DOMAIN cache

\* cond.when.headers / cond.when.query: every listed entry equals the
\* request's value
HeadersMatch(cond, req) ==
    LET want == Prop(Prop(cond, sWhen), sHeaders)
    IN IF Truthy(want)
       THEN \A i \in 1..Len(want.v) :
                Prop(req.headers, want.v[i][1]) = want.v[i][2]
       ELSE TRUE

QueryMatch(cond, req) ==
    LET want == Prop(Prop(cond, sWhen), sQuery)
    IN IF Truthy(want)
       THEN \A i \in 1..Len(want.v) :
                SearchParamsGet(req.query, want.v[i][1]) = want.v[i][2]
       ELSE TRUE

\* the last matching condition instead of the first
matchConditionLast(e, req) ==
    IF e.conditions.k # "arr" THEN Undefined
    ELSE LET hits == {i \in 1..Len(e.conditions.v) :
                        /\ HeadersMatch(e.conditions.v[i], req)
                        /\ QueryMatch(e.conditions.v[i], req)}
         IN IF hits = {} THEN Undefined
            ELSE e.conditions.v[CHOOSE i \in hits : \A j \in hits : i >= j]

\* endpoint.conditions?.find(...): the first matching condition, or undefined
matchCondition(e, req) ==
    IF e.conditions.k # "arr" THEN Undefined
    ELSE LET hits == {i \in 1..Len(e.conditions.v) :
                        /\ HeadersMatch(e.conditions.v[i], req)
                        /\ QueryMatch(e.conditions.v[i], req)}
         IN IF hits = {} THEN Undefined
            ELSE e.conditions.v[CHOOSE i \in hits : \A j \in hits : i <= j]

\* the query-parameter names of an endpoint
searchParam(e) == Or(Prop(e.queryParams, sSearch), Str(sQ))
sortParam(e)   == Or(Prop(e.queryParams, sSort), Str(sSort))
filterParam(e) == Or(Prop(e.queryParams, sFilter), Str(sFilter))
\* the direction always ascending
orderParamAscending(e) == Str(sAsc)

orderParam(e)  ==
    IF isValidSortOrder(Prop(e.queryParams, sOrder))
    THEN Prop(e.queryParams, sOrder) ELSE Str(sAsc)

\* url.searchParams.get(searchParam) || url.searchParams.get('q') || ''
searchValue(e, query) ==
    Or(Or(SearchParamsGet(query, searchParam(e).v), SearchParamsGet(query, sQ)),
       Str(<<>>))

\* url.searchParams.get(sortParam) || 'sort'
sortField(e, query) == Or(SearchParamsGet(query, sortParam(e).v), Str(sSort))

\* url.searchParams.get(filterParam) ?? ''
filterField(e, query) ==
    Coalesce(SearchParamsGet(query, filterParam(e).v), Str(<<>>))

\* url.searchParams.get(filterField) ?? ''
filterValue(e, query) ==
    Coalesce(SearchParamsGet(query, filterField(e, query).v), Str(<<>>))

\* parseInt(url.searchParams.get(per_page key) || `${endpoint.perPage}`, 10)
perPageOf(e, query) ==
    ParseInt(Or(SearchParamsGet(query,
                    Or(Prop(e.queryParams, sPerPage), Str(sPerPage)).v),
                Str(ToText(e.perPage))).v)

\* parseInt(url.searchParams.get(total key) || `${endpoint.total}`, 10)
\*   || DEFAULT_TOTAL_ITEMS
totalOf(e, query) ==
    Or(ParseInt(Or(SearchParamsGet(query,
                       Or(Prop(e.queryParams, sTotal), Str(sTotal)).v),
                   Str(ToText(e.total))).v),
       Num(DEFAULT_TOTAL_ITEMS))

\* endpoint.pagination || (Number.isInteger(perPage) && perPage > 0)
isPaginationEnabled(e, perPage) ==
    Truthy(e.pagination) \/ IsPositiveInteger(perPage)

\* the page count without its lower bound
totalPagesOfUnbounded(perPage, total) == CeilDiv(total, Or(perPage, total))

\* Math.max(1, Math.ceil(total / (perPage || total)))
totalPagesOf(perPage, total) ==
    MathMax(Num(1), CeilDiv(total, Or(perPage, total)))

\* Math.min(Math.max(parseInt(page ?? '1', 10) || 1), totalPages): Math.max
\* of one argument returns it
pageOf(query, totalPages) ==
    MathMin(Or(ParseInt(Coalesce(SearchParamsGet(query, sPage),
                                 Str(<<"1">>)).v), Num(1)),
            totalPages)

\* the first id of a page counted from zero
startIdOfZeroBased(enabled, page, perPage) ==
    IF enabled THEN Times(Minus(page, Num(1)), perPage) ELSE Num(1)

startIdOf(enabled, page, perPage) ==
    IF enabled THEN Plus(Times(Minus(page, Num(1)), perPage), Num(1))
    ELSE Num(1)

endIdOf(enabled, startId, perPage, total) ==
    IF enabled THEN MathMin(Minus(Plus(startId, perPage), Num(1)), total)
    ELSE total

ParamsRecord(e, query, perPage, total, enabled, totalPages, page, startId) ==
    [searchValue |-> searchValue(e, query).v, sortParam |-> sortParam(e).v,
     sortField |-> sortField(e, query).v, orderParam |-> orderParam(e).v,
     filterField |-> filterField(e, query).v,
     filterValue |-> filterValue(e, query).v,
     perPage |-> perPage, total |-> total, isPaginationEnabled |-> enabled,
     totalPages |-> totalPages, page |-> page, startId |-> startId,
     endId |-> endIdOf(enabled, startId, perPage, total)]

ParamsOnPage(e, query, perPage, total, enabled, totalPages, page) ==
    ParamsRecord(e, query, perPage, total, enabled, totalPages, page,
                 startIdOf(enabled, page, perPage))

ParamsOf(e, query, perPage, total) ==
    ParamsOnPage(e, query, perPage, total, isPaginationEnabled(e, perPage),
                 totalPagesOf(perPage, total),
                 pageOf(query, totalPagesOf(perPage, total)))

\* the search, sort, filter and pagination parameters of a request
buildParams(e, query) ==
    ParamsOf(e, query, perPageOf(e, query), totalOf(e, query))

\* the entries of one record's resolvedProps, from entry i on
RECURSIVE resolveProps(_, _, _)
resolveProps(props, i, s) ==
    IF i > Len(props) THEN Returned(<<>>, s)
    ELSE LET head == resolveResponsePropValue(props[i][1], props[i][2], s)
         IN IF ~head.ok THEN head
            ELSE LET rest == resolveProps(props, i + 1, head.st)
                 IN IF ~rest.ok THEN rest
                    ELSE Returned(<< <<props[i][1], head.val>> >> \o rest.val,
                                  rest.st)

\* Array.from({length}).map((_, i) => ({id: firstId + i, ...resolvedProps})),
\* from index i on, the entries being those of endpoint.responseProps || {}
RECURSIVE generateData(_, _, _, _, _)
generateData(e, length, firstId, i, s) ==
    IF i >= length THEN Returned(<<>>, s)
    ELSE LET props == IF e.responseProps.k = "obj" THEN e.responseProps.v
                      ELSE <<>>
             head  == resolveProps(props, 1, s)
         IN IF ~head.ok THEN head
            ELSE LET rest == generateData(e, length, firstId, i + 1, head.st)
                 IN IF ~rest.ok THEN rest
                    ELSE Returned(
                           <<Obj(FromEntries(
                               << <<sId, Plus(firstId, Num(i))>> >>
                               \o head.val))>> \o rest.val,
                           rest.st)

\* search, then filter, then sort
applyTransforms(data, p) ==
    LET searched == IF p.searchValue # <<>>
                    THEN searchData(data, p.searchValue) ELSE data
        filtered == IF p.filterField # <<>> /\ p.filterValue # <<>>
                    THEN filterData(searched, p.filterField, p.filterValue)
                    ELSE searched
    IN IF p.sortParam # <<>>
       THEN sortData(filtered, p.sortField, p.orderParam)
       ELSE filtered

\* a singular result taken from the end of the list
buildPayloadLast(e, filteredData, p) ==
    IF Truthy(e.singular)
    THEN (IF filteredData # <<>> THEN filteredData[Len(filteredData)]
          ELSE EmptyObj)
    ELSE Obj(<< <<sData, Arr(filteredData)>>,
                <<sPage, p.page>>,
                <<sPerPage, IF p.isPaginationEnabled THEN p.perPage
                                                     ELSE p.total>>,
                <<sTotal, p.total>>,
                <<sTotalPages, p.totalPages>> >>)

\* an envelope that counts the records left after search and filter
buildPayloadCounted(e, filteredData, p) ==
    IF Truthy(e.singular)
    THEN (IF filteredData # <<>> THEN filteredData[1] ELSE EmptyObj)
    ELSE Obj(<< <<sData, Arr(filteredData)>>,
                <<sPage, p.page>>,
                <<sPerPage, IF p.isPaginationEnabled THEN p.perPage
                                                     ELSE p.total>>,
                <<sTotal, Num(Len(filteredData))>>,
                <<sTotalPages, p.totalPages>> >>)

\* the result of a request that generated data
buildPayload(e, filteredData, p) ==
    IF Truthy(e.singular)
    THEN (IF filteredData # <<>> THEN filteredData[1] ELSE EmptyObj)
    ELSE Obj(<< <<sData, Arr(filteredData)>>,
                <<sPage, p.page>>,
                <<sPerPage, IF p.isPaginationEnabled THEN p.perPage
                                                     ELSE p.total>>,
                <<sTotal, p.total>>,
                <<sTotalPages, p.totalPages>> >>)

\* if (endpoint.seed) faker.seed(endpoint.seed)
Seeded(e, s) == IF Truthy(e.seed) THEN FakerSeed(e.seed.v) ELSE s

Seeds(e) == Truthy(e.seed)

\* The arguments of the four sendResponse calls
Send(status, data, delay, transform) ==
    [status |-> status, data |-> data, delay |-> delay, transform |-> transform]

\* a cache hit sent with the default status
SendCachedDefaultStatus(e, cachedResponse) ==
    Send(Num(200), cachedResponse, e.delay, e.responseFormat)

SendCached(e, cachedResponse) ==
    Send(Or(e.status, Num(200)), cachedResponse, e.delay, e.responseFormat)

SendCondition(e, condition) ==
    Send(Or(Prop(condition, sStatus), Num(200)),
         Or(Prop(condition, sStaticResponse), EmptyObj), e.delay, Undefined)

\* the static response sent with the default status
SendStaticDefaultStatus(e) ==
    Send(Num(200), e.staticResponse, e.delay, e.responseFormat)

SendStatic(e) ==
    Send(Or(e.status, Num(200)), e.staticResponse, e.delay, e.responseFormat)

SendResult(e, result) ==
    Send(Or(e.status, Num(200)), result, e.delay, e.responseFormat)

\* a handler that leaves the store to a later step
CacheSetSkipped(e, key, result, cache) == cache

\* cacheStore.set(cacheKey, result) when endpoint.cache
CacheSet(e, key, result, cache) ==
    IF Truthy(e.cache)
    THEN [x \in (DOMAIN cache) \cup {key} |->
             IF x = key THEN result ELSE cache[x]]
    ELSE cache

\* One run of the handler up to its first suspension: what it did (stages),
\* the cache and seed state it leaves, and how it ends:
\*   "end"          res.end() with status 405
\*   "sendJson"     the simulated error
\*   "send"         sendResponse was called; awaited tells whether the
\*                  handler returned sendResponse's promise
\*   "throw"        generation threw; send.data is the error
Outcome(kind, stages, cache, s, send, awaited) ==
    [kind |-> kind, stages |-> stages, cache |-> cache, st |-> s,
     send |-> send, awaited |-> awaited]

\* no sendResponse call: the handler threw, and its promise rejects with the
\* error
Rejection(error) == Send(Num(0), error, Undefined, Undefined)

\* the stages every request past the cache lookup has run when it answers
StagesBefore(e) ==
    {"method", "params", "conditions"}
    \cup (IF ErrorDrawn(e) THEN {"draw"} ELSE {})
    \cup (IF Truthy(e.cache) THEN {"cacheHas"} ELSE {})
    \cup (IF Seeds(e) THEN {"seed"} ELSE {})

\* the length of the generated array
DataLength(p) ==
    ArrayLength(IF p.isPaginationEnabled
                THEN MathMax(Num(0), Plus(Minus(p.endId, p.startId), Num(1)))
                ELSE p.total)

sItems == <<"i", "t", "e", "m", "s">>

\* the responseFormat callback of the model: (data) => ({items: data})
ApplyTransform(transform, data) ==
    IF Truthy(transform) THEN Obj(<< <<sItems, data>> >>) ELSE data

\* the result stored after responseFormat instead of before
StoredFormatted(e, cacheKey, cache, st, result) ==
    Outcome("send",
            StagesBefore(e) \cup {"generate", "transform"}
            \cup (IF Truthy(e.cache) THEN {"cacheSet"} ELSE {}),
            CacheSet(e, cacheKey, ApplyTransform(e.responseFormat, result),
                     cache),
            st, SendResult(e, result), TRUE)

\* handlers.ts:310-321: the cache store and the final sendResponse
Stored(e, cacheKey, cache, st, result) ==
    Outcome("send",
            StagesBefore(e) \cup {"generate", "transform"}
            \cup (IF Truthy(e.cache) THEN {"cacheSet"} ELSE {}),
            CacheSet(e, cacheKey, result, cache), st,
            SendResult(e, result), TRUE)

\* handlers.ts:268-308: generation, transforms and the shape of the result
Generated(e, cacheKey, cache, p, data) ==
    IF ~data.ok
    THEN Outcome("throw", StagesBefore(e) \cup {"generate"}, cache, data.st,
                 Rejection(data.val), TRUE)
    ELSE Stored(e, cacheKey, cache, data.st,
                buildPayload(e, applyTransforms(data.val, p), p))

\* a static response that is stored in the cache like a generated one
RespondStoringStatic(e, cacheKey, cache, p, condition, seeded) ==
    IF condition.k # "undefined"
    THEN Outcome("send", StagesBefore(e), cache, seeded,
                 SendCondition(e, condition), FALSE)
    ELSE IF Truthy(e.staticResponse)
    THEN Outcome("send", StagesBefore(e),
                 CacheSet(e, cacheKey, e.staticResponse, cache), seeded,
                 SendStatic(e), FALSE)
    ELSE Generated(e, cacheKey, cache, p,
                   generateData(e, DataLength(p), p.startId, 0, seeded))

\* handlers.ts:243-266: seeding, then the condition and static responses
Respond(e, cacheKey, cache, p, condition, seeded) ==
    IF condition.k # "undefined"
    THEN Outcome("send", StagesBefore(e), cache, seeded,
                 SendCondition(e, condition), FALSE)
    ELSE IF Truthy(e.staticResponse)
    THEN Outcome("send", StagesBefore(e), cache, seeded, SendStatic(e), FALSE)
    ELSE Generated(e, cacheKey, cache, p,
                   generateData(e, DataLength(p), p.startId, 0, seeded))

\* the cache looked up before the error draw
GateCacheFirst(e, req, draw, cache, s, cacheKey) ==
    IF MethodRejected(e, req)
    THEN Outcome("end", {"method"}, cache, s,
                 Send(Num(405), Undefined, Undefined, Undefined), FALSE)
    ELSE IF CacheHit(e, cacheKey, cache)
    THEN Outcome("send", {"method", "cacheHas", "cacheGet"},
                 cache, s, SendCached(e, cache[cacheKey]), TRUE)
    ELSE IF SimulatedError(e, draw)
    THEN Outcome("sendJson", {"method", "draw", "cacheHas"}, cache, s,
                 Send(Num(500), Obj(<< <<sError, Str(sSimulated)>> >>),
                      Undefined, Undefined), FALSE)
    ELSE Respond(e, cacheKey, cache, buildParams(e, req.query),
                 matchCondition(e, req), Seeded(e, s))

\* handlers.ts:149-172: the method check, error injection and cache lookup
Gate(e, req, draw, cache, s, cacheKey) ==
    IF MethodRejected(e, req)
    THEN Outcome("end", {"method"}, cache, s,
                 Send(Num(405), Undefined, Undefined, Undefined), FALSE)
    ELSE IF SimulatedError(e, draw)
    THEN Outcome("sendJson", {"method", "draw"}, cache, s,
                 Send(Num(500), Obj(<< <<sError, Str(sSimulated)>> >>),
                      Undefined, Undefined), FALSE)
    ELSE IF CacheHit(e, cacheKey, cache)
    THEN Outcome("send",
                 {"method", "cacheHas", "cacheGet"}
                 \cup (IF ErrorDrawn(e) THEN {"draw"} ELSE {}),
                 cache, s, SendCached(e, cache[cacheKey]), TRUE)
    ELSE Respond(e, cacheKey, cache, buildParams(e, req.query),
                 matchCondition(e, req), Seeded(e, s))

Handle(e, req, draw, cache, s) ==
    Gate(e, req, draw, cache, s, CacheKey(e, req.query))

----------------------------------------------------------------------------
(* Emitting a response *)

\* the value JSON.stringify writes: NaN becomes null, an undefined or
\* function-valued property is left out and such an array element is null
RECURSIVE JsonValue(_)
RECURSIVE JsonEntries(_)
JsonEntries(entries) ==
    IF entries = <<>> THEN <<>>
    ELSE LET v == JsonValue(entries[1][2])
         IN IF v.k \in {"undefined", "fn"} THEN JsonEntries(Tail(entries))
            ELSE << <<entries[1][1], v>> >> \o JsonEntries(Tail(entries))

JsonValue(x) ==
    CASE x.k = "NaN" -> Null
      [] x.k = "arr" ->
            Arr([i \in 1..Len(x.v) |->
                    LET v == JsonValue(x.v[i])
                    IN IF v.k \in {"undefined", "fn"} THEN Null ELSE v])
      [] x.k = "obj" -> Obj(JsonEntries(x.v))
      [] OTHER -> x

\* sendJson(res, statusCode, data)
sendJson(statusCode, data) ==
    [status |-> statusCode.v, body |-> JsonValue(data), json |-> TRUE]

\* the second half of sendResponse: transform, then sendJson
Dispatch(send) == sendJson(send.status, ApplyTransform(send.transform, send.data))

\* res.statusCode = 405; res.end()
EndEmpty == [status |-> 405, body |-> Undefined, json |-> FALSE]

----------------------------------------------------------------------------
(* Endpoint configurations and requests of the model *)

GET  == Str(<<"G", "E", "T">>)
POST == Str(<<"P", "O", "S", "T">>)

sName   == <<"n", "a", "m", "e">>
sMsg    == <<"m", "s", "g">>
sHeader == <<"x", "-", "h">>
sKey    == <<"k">>
sV1     == <<"v", "1">>
sV2     == <<"v", "2">>

Message(text) == Obj(<< <<sMsg, Str(text)>> >>)

\* {when: {headers: {'x-h': 'v1'}}, staticResponse: {msg: 'h'}}
OnHeader ==
    Obj(<< <<sWhen, Obj(<< <<sHeaders, Obj(<< <<sHeader, Str(sV1)>> >>)>> >>)>>,
           <<sStaticResponse, Message(<<"h">>)>> >>)

\* {when: {query: {k: 'v1'}}, status: 202, staticResponse: {msg: 'q'}}
OnQuery ==
    Obj(<< <<sWhen, Obj(<< <<sQuery, Obj(<< <<sKey, Str(sV1)>> >>)>> >>)>>,
           <<sStatus, Num(202)>>,
           <<sStaticResponse, Message(<<"q">>)>> >>)

\* {when: {headers: {'x-h': 'v1'}, query: {k: 'v1'}}, status: 203}
OnBoth ==
    Obj(<< <<sWhen, Obj(<< <<sHeaders, Obj(<< <<sHeader, Str(sV1)>> >>)>>,
                           <<sQuery, Obj(<< <<sKey, Str(sV1)>> >>)>> >>)>>,
           <<sStatus, Num(203)>> >>)

NameProps == Obj(<< <<sName, Str(sWord \o <<".">> \o sNoun)>> >>)

\* the endpoint with every option unset but those given
Endpoint(methods, errorRate, cache, knobs, conditions, staticResponse, seed) ==
    [url |-> Str(<<"/", "a">>),
     methods |-> methods, errorRate |-> errorRate, cache |-> cache,
     status |-> knobs.status, delay |-> knobs.delay,
     responseFormat |-> knobs.responseFormat,
     conditions |-> conditions, staticResponse |-> staticResponse,
     seed |-> seed, singular |-> Undefined, pagination |-> Undefined,
     perPage |-> Undefined, total |-> Num(2),
     responseProps |-> NameProps, queryParams |-> Undefined]

Plain  == [status |-> Undefined, delay |-> Undefined, responseFormat |-> Undefined]
Shaped == [status |-> Num(201), delay |-> Undefined, responseFormat |-> Fn("format")]
Slow   == [status |-> Num(201), delay |-> Num(100), responseFormat |-> Fn("format")]

ErrorRates == {Undefined} \cup {Num(n) : n \in 0..RandomRes}

\* the deciding stages against each other
StageConfigs ==
    { Endpoint(methods, errorRate, cache, Slow, conditions, staticResponse,
               Undefined) :
      methods \in {Undefined, Arr(<<GET>>)},
      errorRate \in ErrorRates,
      cache \in {Undefined, Bool(TRUE)},
      conditions \in {Undefined, Arr(<<OnHeader, OnQuery>>)},
      staticResponse \in {Undefined, Message(<<"s">>)} }

\* the dispatch options against each way of answering
DispatchConfigs ==
    { Endpoint(Undefined, Undefined, cache, knobs, conditions, staticResponse,
               Undefined) :
      cache \in {Bool(FALSE), Bool(TRUE)},
      knobs \in {Plain, Shaped, Slow},
      conditions \in {Undefined, Arr(<<OnHeader, OnQuery>>),
                      Arr(<<OnBoth, OnQuery>>)},
      staticResponse \in {Undefined, Message(<<"s">>)} }

\* seeding against caching and delay
SeedConfigs ==
    { Endpoint(Undefined, Undefined, cache, knobs, Undefined, Undefined, seed) :
      cache \in {Undefined, Bool(FALSE), Bool(TRUE)},
      knobs \in {Plain, Slow},
      seed \in {Undefined, Num(0), Num(5)} }

PipelineConfigs == StageConfigs \cup DispatchConfigs \cup SeedConfigs

\* a listing endpoint: only the options of the record pipeline are set
Listing(perPage, total, pagination, singular, queryParams, responseProps) ==
    [url |-> Str(<<"/", "a">>),
     methods |-> Undefined, errorRate |-> Undefined, cache |-> Undefined,
     status |-> Undefined, delay |-> Undefined, responseFormat |-> Undefined,
     conditions |-> Undefined, staticResponse |-> Undefined,
     seed |-> Undefined, singular |-> singular, pagination |-> pagination,
     perPage |-> perPage, total |-> total,
     responseProps |-> responseProps, queryParams |-> queryParams]

sBy   == <<"b", "y">>
sDesc == <<"d", "e", "s", "c">>
sUp   == <<"u", "p">>

\* {k: (faker) => faker.helpers.maybe(...)}
MaybeProps == Obj(<< <<sKey, Fn("maybe")>> >>)

\* {sort: 'word.noun'}: a field named like the default sort parameter
SortProps == Obj(<< <<sSort, Str(sWord \o <<".">> \o sNoun)>> >>)

\* the page window: perPage, total and pagination against each other
WindowConfigs ==
    { Listing(perPage, total, pagination, Undefined, Undefined, NameProps) :
      perPage \in {Undefined, Num(2), Num(10)},
      total \in {Undefined, Num(5), Num(25)},
      pagination \in {Undefined, Bool(TRUE), Bool(FALSE)} }

\* search, filter and sort against the two shapes of the result
TransformConfigs ==
    { Listing(perPage, Num(4), Undefined, singular, queryParams,
              responseProps) :
      perPage \in {Undefined, Num(3)},
      singular \in {Undefined, Bool(TRUE)},
      queryParams \in {Undefined,
                       Obj(<< <<sOrder, Str(sDesc)>> >>),
                       Obj(<< <<sOrder, Str(sUp)>> >>),
                       Obj(<< <<sSort, Str(sBy)>>, <<sOrder, Str(sDesc)>> >>)},
      responseProps \in {NameProps, MaybeProps, SortProps} }

ListingConfigs == WindowConfigs \cup TransformConfigs

\* one query parameter, or none when the value is the empty string
Param(name, value) == IF value = <<>> THEN <<>> ELSE << <<name, value>> >>

\* ?page=..&per_page=..&total=..
WindowQueries ==
    { Param(sPage, page) \o Param(sPerPage, perPage) \o Param(sTotal, total) :
      page \in {<<>>, <<"0">>, <<"-", "1">>, <<"x">>, <<"2">>, <<"9">>},
      perPage \in {<<>>, <<"3">>, <<"x">>, <<"0">>, <<"-", "2">>},
      total \in {<<>>, <<"7">>, <<"x">>} }

\* ?q=..&filter=..&<field>=..
SearchQueries ==
    { Param(sQ, q) \o filter :
      q \in {<<>>, <<"A">>, <<"1">>, <<"z">>},
      filter \in {<<>>,
                  << <<sFilter, sName>>, <<sName, <<"a">> >> >>,
                  << <<sFilter, sName>>, <<sName, <<"a", "b">> >> >>,
                  << <<sFilter, sId>>, <<sId, <<"1">> >> >>} }

\* ?sort=..&order=..
SortQueries ==
    { sort \o Param(sOrder, order) \o Param(sQ, q) :
      sort \in {<<>>, Param(sSort, sName), Param(sSort, sId),
                Param(sSort, sKey), Param(sSort, <<"z">>),
                Param(sBy, sName), Param(sBy, sId)},
      order \in {<<>>, sAsc, sDesc},
      q \in {<<>>, <<"a">>} }

\* ?page=2&q=..&sort=..: search and sort on a later page
PagedQueries ==
    { Param(sPage, <<"2">>) \o Param(sQ, q) \o Param(sSort, sort) :
      q \in {<<>>, <<"a">>}, sort \in {<<>>, sName, sId} }

ListingQueries ==
    WindowQueries \cup SearchQueries \cup SortQueries \cup PagedQueries

\* the queries tried against an endpoint
QueriesFor(e) ==
    IF e \in WindowConfigs THEN WindowQueries
    ELSE SearchQueries \cup SortQueries \cup PagedQueries

Methods == {GET, POST}

HeaderSets == {EmptyObj, Obj(<< <<sHeader, Str(sV1)>> >>)}

Queries == {<<>>, << <<sKey, sV1>> >>}

----------------------------------------------------------------------------
(* The state machine *)

\* cacheStore is a module-level Map: it outlives a handler, so a handler can
\* start with an entry that an earlier handler for the same url stored.
EarlierPayload == Message(<<"o", "l", "d">>)

EarlierStores(e) == {<<>>, [x \in {CacheKey(e, <<>>)} |-> EarlierPayload]}

sEndpoints == <<"e", "n", "d", "p", "o", "i", "n", "t", "s">>

\* createEndpointHandler(endpoint) checks nothing and returns the handler,
\* known here by the endpoint it closes over
createEndpointHandler(e) == e

\* server.middlewares.use(endpoint.url, createEndpointHandler(endpoint))
Registration(e) == [route |-> e.url, handle |-> createEndpointHandler(e)]

\* the plugin was called with {endpoints: [e]} and the server is configured
Serving(e) ==
    /\ optionsOrPath = Obj(<< <<sEndpoints, Arr(<<e>>)>> >>)
    /\ plugin = "configured"
    /\ middlewares = <<Registration(e)>>

InitWith(configs) ==
    /\ endpoint \in configs
    /\ cacheStore \in EarlierStores(endpoint)
    /\ storedAt = [x \in DOMAIN cacheStore |-> 0]
    /\ fakerState \in 0..(FakerMod - 1)
    /\ now = 0
    /\ reqs = <<>>
    /\ Serving(endpoint)

Init == InitWith(PipelineConfigs)

\* The handler reads req.method only under a methods list, req.headers only
\* under conditions and Math.random() only under a truthy errorRate: a
\* request input it does not read is held at one value.
ReadByHandler(e, method, headers, draw) ==
    /\ (Truthy(e.methods) \/ method = GET)
    /\ (e.conditions.k = "arr" \/ headers = EmptyObj)
    /\ (ErrorDrawn(e) \/ draw = 0)

\* a sendResponse that awaits before it sends whether or not a delay is set
SuspendsAlways(h) == h.kind = "send"

\* sendResponse awaits its timeout before it sends
Suspends(h) == h.kind = "send" /\ Truthy(h.send.delay)

\* what a request's run leaves behind: its inputs, what it did and what it
\* has emitted so far
RequestRecord(method, headers, query, draw, h) ==
    [method  |-> method,
     headers |-> headers,
     query   |-> query,
     at      |-> now,
     draw    |-> IF "draw" \in h.stages THEN draw ELSE -1,
     stages  |-> h.stages,
     kind    |-> h.kind,
     send    |-> h.send,
     pc      |-> IF h.kind = "throw" THEN "failed"
                 ELSE IF Suspends(h) THEN "waiting" ELSE "done",
     promise |-> IF h.kind = "throw" THEN "rejected"
                 ELSE IF Suspends(h) /\ h.awaited THEN "pending"
                 ELSE "fulfilled",
     emitted |-> IF h.kind = "end" THEN <<EndEmpty>>
                 ELSE IF h.kind = "sendJson"
                 THEN <<sendJson(h.send.status, h.send.data)>>
                 ELSE IF h.kind = "send" /\ ~Suspends(h)
                 THEN <<Dispatch(h.send)>>
                 ELSE <<>>]

Arrive(method, headers, query, draw, h) ==
    /\ cacheStore' = h.cache
    /\ storedAt' = [x \in DOMAIN h.cache |->
                      IF x \in DOMAIN cacheStore THEN storedAt[x] ELSE now]
    /\ fakerState' = h.st
    /\ reqs' = Append(reqs, RequestRecord(method, headers, query, draw, h))

\* A request arrives and its handler runs until it returns or suspends in
\* sendResponse's delay.
Request(method, headers, query, draw) ==
    /\ Len(reqs) < MaxReq
    /\ ReadByHandler(endpoint, method, headers, draw)
    /\ Arrive(method, headers, query, draw,
              Handle(endpoint,
                     [method |-> method, headers |-> headers, query |-> query],
                     draw, cacheStore, fakerState))
    /\ UNCHANGED <<endpoint, now, pluginVars>>

\* a timer that sends and leaves the request waiting for it again
TimerFiresAgain(r) ==
    /\ r \in 1..Len(reqs)
    /\ reqs[r].pc = "waiting"
    /\ reqs' = [reqs EXCEPT ![r].emitted = Append(@, Dispatch(reqs[r].send))]
    /\ UNCHANGED <<endpoint, cacheStore, storedAt, fakerState, now, pluginVars>>

\* The delay of a suspended sendResponse elapses: it transforms and sends.
TimerFires(r) ==
    /\ r \in 1..Len(reqs)
    /\ reqs[r].pc = "waiting"
    /\ reqs' = [reqs EXCEPT ![r].pc = "done",
                            ![r].promise = "fulfilled",
                            ![r].emitted = Append(@, Dispatch(reqs[r].send))]
    /\ UNCHANGED <<endpoint, cacheStore, storedAt, fakerState, now, pluginVars>>

\* milliseconds of one clock tick
TickMs == 150000

\* Time passes.
Tick ==
    /\ now < MaxTicks * TickMs
    /\ now' = now + TickMs
    /\ UNCHANGED <<endpoint, cacheStore, storedAt, fakerState, reqs, pluginVars>>

Next ==
    \/ \E method \in Methods, headers \in HeaderSets, query \in Queries,
          draw \in 0..(RandomRes - 1) :
            Request(method, headers, query, draw)
    \/ \E r \in 1..MaxReq : TimerFires(r)

Spec == Init /\ [][Next]_vars

\* number of requests in one behaviour in which every delay ends
MaxLive == 2

\* an endpoint on which each way of answering is open, with and without a
\* delay
LiveConfigs ==
    { Endpoint(Arr(<<GET>>), Num(1), Bool(TRUE), knobs,
               Arr(<<OnHeader, OnQuery>>), staticResponse, Undefined) :
      knobs \in {Plain, Slow},
      staticResponse \in {Undefined, Message(<<"s">>)} }

InitLive == InitWith(LiveConfigs) /\ fakerState = 0

LiveRequest(method, query, draw) ==
    /\ Len(reqs) < MaxLive
    /\ Request(method, EmptyObj, query, draw)

NextLive ==
    \/ \E method \in Methods, query \in Queries, draw \in 0..(RandomRes - 1) :
          LiveRequest(method, query, draw)
    \/ \E r \in 1..MaxLive : TimerFires(r)

\* Node's event loop runs every timer that is due: no delay lasts forever
SpecLive ==
    /\ InitLive
    /\ [][NextLive]_vars
    /\ \A r \in 1..MaxLive : WF_vars(TimerFires(r))

\* a caching endpoint watched over time
ClockConfigs ==
    { Endpoint(Undefined, Undefined, Bool(TRUE), knobs, Undefined, Undefined,
               seed) :
      knobs \in {Plain, Slow}, seed \in {Undefined, Num(5)} }

NextClock == Next \/ Tick

InitClock == InitWith(ClockConfigs)

SpecClock == InitClock /\ [][NextClock]_vars

\* number of requests to a listing endpoint in one behaviour
MaxListed == 1

\* a listing endpoint answers requests against an empty store
InitListing == InitWith(ListingConfigs) /\ cacheStore = <<>>

ListingRequest(query) ==
    /\ query \in QueriesFor(endpoint)
    /\ Len(reqs) < MaxListed
    /\ Request(GET, EmptyObj, query, 0)

NextListing == \E query \in ListingQueries : ListingRequest(query)

SpecListing == InitListing /\ [][NextListing]_vars

\* two texts joined by a period
Dotted(a, b) == a \o <<".">> \o b

sNope == <<"n", "o", "p", "e">>

\* string values of responseProps: with escaped periods, without a period,
\* paths that resolve and paths that do not
EscapedTexts ==
    {<<"a", ".", ".", "b">>, <<"a", ".", ".", ".", "b">>,
     <<"H", "i", ".", ".", " ", "a", ".">>, <<".", ".">>,
     sWord \o <<".", ".">> \o sNoun,
     <<"a", ".", ".", "b", ".", ".", "b">>}
PlainTexts == {<<"a", "b">>}
GoodPaths == {Dotted(sWord, sNoun), Dotted(sNumber, sInt)}
BadPaths ==
    {Dotted(sWord, sNope), Dotted(sNope, sNoun),
     Dotted(Dotted(sWord, sNoun), sNope), Dotted(sWord, <<>>)}

\* ['word.noun', 5, null, false, {k: 'number.int', name: ['word.noun']}]
NestedList ==
    Arr(<<Str(Dotted(sWord, sNoun)), Num(5), Null, Bool(FALSE),
          Obj(<< <<sKey, Str(Dotted(sNumber, sInt))>>,
                 <<sName, Arr(<<Str(Dotted(sWord, sNoun))>>)>> >>)>>)

\* nested definitions: arrays and mappings of paths, callbacks and literals
NestedValues ==
    {NestedList,
     Arr(<<>>), EmptyObj,
     Arr(<<Num(1), Str(Dotted(sNumber, sInt)), Str(Dotted(sWord, sNoun))>>),
     Obj(<< <<sKey, Obj(<< <<sName, Str(Dotted(sWord, sNoun))>> >>)>>,
            <<sMsg, Bool(TRUE)>> >>),
     Arr(<<Fn("maybe"), Arr(<<Null, Num(0)>>)>>),
     Arr(<<Str(Dotted(sWord, sNoun)), Str(Dotted(sNope, sNoun))>>),
     Obj(<< <<sKey, Str(Dotted(sWord, sNope))>> >>),
     Arr(<<Str(<<"a", ".", ".", "b">>)>>),
     Obj(<< <<sMsg, Str(<<"H", "i", ".", ".", " ", "a", ".">>)>> >>)}

ResolveValues ==
    {Str(text) : text \in EscapedTexts \cup PlainTexts \cup GoodPaths
                         \cup BadPaths}
    \cup NestedValues \cup {Num(5), Bool(TRUE), Null, Fn("maybe")}

\* responseProps with one value under k, alone or after a generated name
ResolveProps ==
    {Obj(<< <<sKey, value>> >>) : value \in ResolveValues}
    \cup {Obj(<< <<sName, Str(Dotted(sWord, sNoun))>>, <<sKey, value>> >>) :
            value \in {Str(<<"a", ".", ".", "b">>), NestedList,
                       Str(Dotted(sWord, sNope))}}

\* the value definitions against the two shapes of the result, against a
\* page window that holds no record (pagination: true without perPage), and
\* with and without the cache
ResolveConfigs ==
    { [Listing(Undefined, Num(2), pagination, singular, Undefined, props)
         EXCEPT !.cache = cache] :
      pagination \in {Undefined, Bool(TRUE)},
      singular \in {Undefined, Bool(TRUE)},
      cache \in {Undefined, Bool(TRUE)},
      props \in ResolveProps }

\* number of requests to a resolving endpoint in one behaviour
MaxResolved == 2

InitResolve == InitWith(ResolveConfigs) /\ cacheStore = <<>>

ResolveRequest ==
    /\ Len(reqs) < MaxResolved
    /\ Request(GET, EmptyObj, <<>>, 0)

NextResolve == ResolveRequest

SpecResolve == InitResolve /\ [][NextResolve]_vars

----------------------------------------------------------------------------
(* The plugin: vitePluginFakery, loadConfigFromFile and validateConfig     *)

\* the endpoints a plugin is configured with
ListA  == Listing(Undefined, Num(2), Undefined, Undefined, Undefined, NameProps)
ListA3 == [ListA EXCEPT !.total = Num(3)]
StaticB ==
    [ListA EXCEPT !.url = Str(<<"/", "b">>),
                  !.staticResponse = Message(<<"s">>)]
\* {url: '/c'}: no responseProps and no staticResponse
BareC ==
    [ListA EXCEPT !.url = Str(<<"/", "c">>), !.responseProps = Undefined]

EndpointLists ==
    {<<>>, <<ListA>>, <<ListA, StaticB>>, <<StaticB, ListA>>,
     <<ListA, ListA3>>, <<BareC>>, <<ListA, BareC>>,
     <<BareC, StaticB, ListA>>}

WithEndpoints(value) == Obj(<< <<sEndpoints, value>> >>)

\* plugin options given inline: with an endpoints array, without the key,
\* with an endpoints value that is no array, or no options at all
InlineOptions ==
    {WithEndpoints(Arr(list)) : list \in EndpointLists}
    \cup {EmptyObj, WithEndpoints(Null), WithEndpoints(Str(<<"/", "a">>)),
          WithEndpoints(Obj(<< <<<<"0">>, Str(<<"/", "a">>)>> >>)),
          Undefined, Null}

\* a file whose text is no JSON
Malformed == [k |-> "malformed", v |-> 0]

\* the files on disk: path -> what JSON.parse makes of the file's text
Files ==
    <<WithEndpoints(Arr(<<ListA, StaticB>>)),
      WithEndpoints(Arr(<<BareC, ListA>>)),
      WithEndpoints(Arr(<<>>)),
      EmptyObj,
      WithEndpoints(Bool(TRUE)),
      Arr(<<ListA>>),
      Null,
      Malformed>>

\* the path of the i-th file is the text of i; one more path names no file
PathOf(i) == Str(NatText(i))

PluginArguments == InlineOptions \cup {PathOf(i) : i \in 1..(Len(Files) + 1)}

Failed == [ok |-> FALSE, val |-> Undefined]
Loaded(value) == [ok |-> TRUE, val |-> value]

\* Array.isArray(x)
IsArray(x) == x.k = "arr"

\* validateConfig(config) returns (TRUE) or throws (FALSE); config.endpoints
\* of null is a TypeError
validateConfig(config) ==
    /\ config.k \notin {"undefined", "null"}
    /\ Truthy(Prop(config, sEndpoints))
    /\ IsArray(Prop(config, sEndpoints))

\* fs.existsSync(fullPath)
ExistsSync(configPath) ==
    \E i \in 1..Len(Files) : PathOf(i) = configPath

ReadFile(configPath) ==
    Files[CHOOSE i \in 1..Len(Files) : PathOf(i) = configPath]

\* loadConfigFromFile(configPath): the parsed options, or an error
loadConfigFromFile(configPath) ==
    IF ~ExistsSync(configPath) THEN Failed
    ELSE IF ReadFile(configPath) = Malformed THEN Failed
    ELSE IF ~validateConfig(ReadFile(configPath)) THEN Failed
    ELSE Loaded(ReadFile(configPath))

\* an endpoints check that lets everything through
EndpointsCheckedNever(options) == TRUE

\* Array.isArray(options?.endpoints)
EndpointsChecked(options) ==
    /\ options.k \notin {"undefined", "null"}
    /\ IsArray(Prop(options, sEndpoints))

\* vitePluginFakery(optionsOrPath): the options the plugin closes over, or
\* an error
vitePluginFakery(arg) ==
    IF arg.k = "str"
    THEN (IF ~loadConfigFromFile(arg).ok THEN Failed
          ELSE IF ~EndpointsChecked(loadConfigFromFile(arg).val) THEN Failed
          ELSE loadConfigFromFile(arg))
    ELSE IF ~EndpointsChecked(arg) THEN Failed
    ELSE Loaded(arg)

\* the endpoints of the options, as far as they are iterable
EndpointsOf(options) ==
    IF Prop(options, sEndpoints).k = "arr" THEN Prop(options, sEndpoints).v
    ELSE <<>>

\* for (const endpoint of options.endpoints) server.middlewares.use(...)
RegisterAll(endpoints) ==
    [i \in 1..Len(endpoints) |-> Registration(endpoints[i])]

\* number of requests to a configured server in one behaviour
MaxRouted == 2

InitPlugin ==
    /\ optionsOrPath \in PluginArguments
    /\ plugin = "none"
    /\ middlewares = <<>>
    /\ endpoint = Undefined
    /\ cacheStore = <<>>
    /\ storedAt = <<>>
    /\ fakerState \in 0..(FakerMod - 1)
    /\ now = 0
    /\ reqs = <<>>

\* the plugin function is called
CreatePlugin ==
    /\ plugin = "none"
    /\ plugin' = IF vitePluginFakery(optionsOrPath).ok THEN "created"
                  ELSE "thrown"
    /\ UNCHANGED <<endpoint, cacheStore, storedAt, fakerState, now, reqs,
                   optionsOrPath, middlewares>>

\* Vite calls the configureServer hook of a created plugin
configureServer ==
    /\ plugin = "created"
    /\ plugin' = "configured"
    /\ middlewares' =
          middlewares
          \o RegisterAll(EndpointsOf(vitePluginFakery(optionsOrPath).val))
    /\ UNCHANGED <<endpoint, cacheStore, storedAt, fakerState, now, reqs,
                   optionsOrPath>>

\* the server hands a request to the first handler registered under its path
Routes(path) == {i \in 1..Len(middlewares) : middlewares[i].route = path}

Routed(path, query) ==
    /\ plugin = "configured"
    /\ Len(reqs) < MaxRouted
    /\ Routes(path) # {}
    /\ endpoint' =
          middlewares[CHOOSE i \in Routes(path) :
                         \A j \in Routes(path) : i <= j].handle
    /\ Arrive(GET, EmptyObj, query, 0,
              Handle(endpoint',
                     [method |-> GET, headers |-> EmptyObj, query |-> query],
                     0, cacheStore, fakerState))
    /\ UNCHANGED <<now, pluginVars>>

RoutedPaths == {ListA.url, StaticB.url, BareC.url}

NextPlugin ==
    \/ CreatePlugin
    \/ configureServer
    \/ \E path \in RoutedPaths, query \in Queries : Routed(path, query)

SpecPlugin == InitPlugin /\ [][NextPlugin]_vars

----------------------------------------------------------------------------
(* Properties.  A request record r below is an element of reqs; the        *)
(* predicates on it are stated from the configuration and the request,     *)
(* not through the operators of the handler.                               *)

Requests == 1..Len(reqs)

\* this step is the arrival of a request, and New is that request
Arrived == Len(reqs') = Len(reqs) + 1
New == reqs'[Len(reqs')]

\* the request's method is missing from the configured allow-list
NotAllowed(r) ==
    /\ endpoint.methods.k = "arr"
    /\ \A i \in 1..Len(endpoint.methods.v) : endpoint.methods.v[i] # r.method

\* the request was stopped neither by the method check nor by an injected error
ReachedLookup(r) == r.kind \notin {"end", "sendJson"}

MethodNotAllowedResponse == [status |-> 405, body |-> Undefined, json |-> FALSE]

SimulatedErrorResponse ==
    [status |-> 500, body |-> Obj(<< <<sError, Str(sSimulated)>> >>),
     json |-> TRUE]

ConfiguredStatus == IF Truthy(endpoint.status) THEN endpoint.status ELSE Num(200)

\* the payload after the endpoint's responseFormat, when it has one
Formatted(data) ==
    IF endpoint.responseFormat.k = "fn" THEN Obj(<< <<sItems, data>> >>)
    ELSE data

\* the JSON response that carries a payload under a status
JsonResponse(status, data) ==
    [status |-> status.v, body |-> JsonValue(data), json |-> TRUE]

\* C1: a request whose method is not in the endpoint's methods list is
\* answered with status 405 and an empty body at once, and nothing else
\* happens for it: no error draw, no cache lookup or store (the cache is left
\* as it was), no seeding or generation (the seed state is left as it was),
\* and no later step emits anything more for it.
C1_MethodGateStops ==
    [][/\ (Arrived /\ NotAllowed(New)) =>
            /\ New.emitted = <<MethodNotAllowedResponse>>
            /\ New.pc = "done"
            /\ New.stages = {"method"}
            /\ New.draw = -1
            /\ cacheStore' = cacheStore
            /\ fakerState' = fakerState
       /\ \A r \in Requests : NotAllowed(reqs[r]) => reqs'[r] = reqs[r]
      ]_vars

\* a POST to a GET-only endpoint that also injects errors and caches was
\* answered 405, and another request came after it
C1_Witness ==
    /\ Len(reqs) = 2
    /\ NotAllowed(reqs[1])
    /\ reqs[1].emitted = <<MethodNotAllowedResponse>>
    /\ Truthy(endpoint.errorRate)
    /\ Truthy(endpoint.cache)
    /\ cacheStore # <<>>

\* C2: with errorRate 1.0 every request that passes the method check is
\* answered 500 {error: 'Simulated server error'}; with errorRate 0 or unset
\* no request is.
C2_ErrorRateBoundary ==
    \A r \in Requests :
        /\ (endpoint.errorRate = Num(RandomRes) /\ ~NotAllowed(reqs[r]))
              => reqs[r].emitted = <<SimulatedErrorResponse>>
        /\ (endpoint.errorRate \in {Undefined, Num(0)})
              => \A i \in 1..Len(reqs[r].emitted) :
                    reqs[r].emitted[i] # SimulatedErrorResponse

\* under errorRate 1.0 the largest draw still gave the simulated error
C2_Witness ==
    \E r \in Requests :
        /\ endpoint.errorRate = Num(RandomRes)
        /\ reqs[r].draw = RandomRes - 1
        /\ reqs[r].emitted = <<SimulatedErrorResponse>>

\* request i generated its result and stored it in the cache
StoredBy(i) == "cacheSet" \in reqs[i].stages

\* C3: with cache enabled, once request i has generated and stored its
\* result, a later request j with the same query string that gets as far as
\* the cache lookup is sent the same payload without generating, and its
\* body equals i's; a later request with a different query string is served
\* from the cache only out of an entry stored for its own query string, and
\* when it generates, its result is stored under its own key.
C3_CacheIdempotence ==
    Truthy(endpoint.cache) =>
      \A i \in Requests, j \in Requests :
        (i < j /\ StoredBy(i) /\ ReachedLookup(reqs[j])) =>
          IF reqs[j].query = reqs[i].query
          THEN /\ "generate" \notin reqs[j].stages
               /\ reqs[j].send = reqs[i].send
               /\ (reqs[i].pc = "done" /\ reqs[j].pc = "done")
                     => reqs[j].emitted = reqs[i].emitted
          ELSE /\ "cacheGet" \in reqs[j].stages =>
                    \/ \E k \in 1..(j - 1) :
                          /\ StoredBy(k)
                          /\ reqs[k].query = reqs[j].query
                          /\ reqs[j].send.data = reqs[k].send.data
                    \/ /\ reqs[j].query = <<>>
                       /\ reqs[j].send.data = EarlierPayload
               /\ "generate" \in reqs[j].stages =>
                    /\ CacheKey(endpoint, reqs[j].query) \in DOMAIN cacheStore
                    /\ CacheKey(endpoint, reqs[j].query)
                         # CacheKey(endpoint, reqs[i].query)
                    /\ cacheStore[CacheKey(endpoint, reqs[j].query)]
                         = reqs[j].send.data

\* an unseeded caching endpoint answered two requests with the same query
\* string, the second out of the entry the first stored, after both delays
C3_Witness ==
    /\ Len(reqs) = 2
    /\ Truthy(endpoint.cache)
    /\ endpoint.seed = Undefined
    /\ StoredBy(1)
    /\ reqs[2].query = reqs[1].query
    /\ "cacheGet" \in reqs[2].stages
    /\ reqs[1].pc = "done" /\ reqs[2].pc = "done"
    /\ reqs[2].emitted = reqs[1].emitted
    /\ Len(reqs[1].emitted) = 1

\* C4: a request that finds an entry under its key is sent the cached
\* payload with the endpoint's status, delay and responseFormat, and skips
\* parameter parsing, condition matching, seeding, generation and the
\* transforms: the seed state and the cache are left as they were.  Without
\* a delay the formatted payload is emitted at once, with one it is emitted
\* when the delay has elapsed.
C4_CacheHitShortCircuits ==
    [][/\ ( /\ Arrived
            /\ Truthy(endpoint.cache)
            /\ ReachedLookup(New)
            /\ CacheKey(endpoint, New.query) \in DOMAIN cacheStore ) =>
              /\ New.send = Send(ConfiguredStatus,
                                 cacheStore[CacheKey(endpoint, New.query)],
                                 endpoint.delay, endpoint.responseFormat)
              /\ New.stages \cap {"params", "conditions", "seed", "generate",
                                  "transform", "cacheSet"} = {}
              /\ fakerState' = fakerState
              /\ cacheStore' = cacheStore
              /\ IF Truthy(endpoint.delay)
                 THEN New.pc = "waiting" /\ New.emitted = <<>>
                 ELSE New.emitted =
                        <<JsonResponse(ConfiguredStatus,
                                       Formatted(New.send.data))>>
       /\ \A r \in Requests :
            ( /\ "cacheGet" \in reqs[r].stages
              /\ reqs[r].pc = "waiting"
              /\ reqs'[r].pc = "done" ) =>
                reqs'[r].emitted =
                  <<JsonResponse(ConfiguredStatus,
                                 Formatted(reqs[r].send.data))>>
      ]_vars

\* a request whose header matches the first condition was sent the cached
\* payload, under the configured status and format, after its delay
C4_Witness ==
    \E r \in Requests :
        /\ endpoint.conditions.k = "arr"
        /\ Prop(reqs[r].headers, sHeader) = Str(sV1)
        /\ "cacheGet" \in reqs[r].stages
        /\ Truthy(endpoint.delay) /\ Truthy(endpoint.status)
        /\ reqs[r].pc = "done"
        /\ reqs[r].emitted =
             <<JsonResponse(endpoint.status, Formatted(reqs[r].send.data))>>

\* the bounds the cache is said to have: entries, and milliseconds to live
CacheMaxSize == 100
CacheMaxAge == 300000

\* C5: the response cache is bounded: it never holds more than CacheMaxSize
\* entries, no entry is still held once CacheMaxAge has elapsed since it was
\* created, and so no request is answered from an entry that old.
C5_CacheBounded ==
    /\ Cardinality(DOMAIN cacheStore) <= CacheMaxSize
    /\ \A key \in DOMAIN cacheStore : now - storedAt[key] < CacheMaxAge
    /\ \A r \in Requests :
          "cacheGet" \in reqs[r].stages =>
             reqs[r].at - storedAt[CacheKey(endpoint, reqs[r].query)]
                < CacheMaxAge

\* the pairs a condition lists under when.headers or when.query
ListedPairs(c, part) ==
    IF Prop(Prop(c, sWhen), part).k = "obj"
    THEN Prop(Prop(c, sWhen), part).v
    ELSE <<>>

\* every listed header and every listed parameter equals the request's value
Matches(c, r) ==
    /\ \A i \in 1..Len(ListedPairs(c, sHeaders)) :
          Prop(r.headers, ListedPairs(c, sHeaders)[i][1])
             = ListedPairs(c, sHeaders)[i][2]
    /\ \A i \in 1..Len(ListedPairs(c, sQuery)) :
          SearchParamsGet(r.query, ListedPairs(c, sQuery)[i][1])
             = ListedPairs(c, sQuery)[i][2]

Conditions == IF endpoint.conditions.k = "arr" THEN endpoint.conditions.v ELSE <<>>

\* condition i is the first in list order that matches the request
FirstMatch(i, r) ==
    /\ i \in 1..Len(Conditions)
    /\ Matches(Conditions[i], r)
    /\ \A j \in 1..(i - 1) : ~Matches(Conditions[j], r)

NoMatch(r) == \A i \in 1..Len(Conditions) : ~Matches(Conditions[i], r)

\* the request got past the method check, error injection and cache lookup
PastLookup(r) == ReachedLookup(r) /\ "cacheGet" \notin r.stages

\* the request is one that has to generate its records
ReachesGeneration(r) ==
    PastLookup(r) /\ NoMatch(r) /\ ~Truthy(endpoint.staticResponse)

\* C6: when cache is false or unset, no step changes the cache store, no
\* request looks an entry up, reads one or stores one, and every request
\* that reaches generation generates its records: what it is sent is no
\* entry of the store.
C6_CacheDisabledUntouched ==
    [][(~Truthy(endpoint.cache)) =>
         /\ cacheStore' = cacheStore
         /\ Arrived =>
              /\ New.stages \cap {"cacheHas", "cacheGet", "cacheSet"} = {}
              /\ ReachesGeneration(New) =>
                   /\ "generate" \in New.stages
                   /\ New.kind = "send" =>
                        \A key \in DOMAIN cacheStore :
                           New.send.data # cacheStore[key]
      ]_vars

\* an endpoint with cache: false, started over a store that holds an entry
\* under its key, generated for two requests with that key
C6_Witness ==
    /\ endpoint.cache = Bool(FALSE)
    /\ CacheKey(endpoint, <<>>) \in DOMAIN cacheStore
    /\ Len(reqs) = 2
    /\ \A r \in Requests :
          /\ reqs[r].query = <<>>
          /\ "generate" \in reqs[r].stages
          /\ reqs[r].pc = "done"

\* the status and payload a condition answers with
ConditionStatus(c) ==
    IF Truthy(Prop(c, sStatus)) THEN Prop(c, sStatus) ELSE Num(200)

ConditionPayload(c) ==
    IF Truthy(Prop(c, sStaticResponse)) THEN Prop(c, sStaticResponse)
    ELSE EmptyObj

\* C7: a request that gets to the conditions is answered by the first
\* condition in list order whose listed headers and parameters all equal the
\* request's: it is sent that condition's status (200 when it has none) and
\* staticResponse, and the emitted response has that status.  A request
\* that no condition matches is answered by none of them: it gets the static
\* response or generated records.
C7_FirstMatchingCondition ==
    \A r \in Requests :
        PastLookup(reqs[r]) =>
          /\ \A i \in 1..Len(Conditions) :
                FirstMatch(i, reqs[r]) =>
                  /\ reqs[r].kind = "send"
                  /\ reqs[r].send.status = ConditionStatus(Conditions[i])
                  /\ reqs[r].send.data = ConditionPayload(Conditions[i])
                  /\ "generate" \notin reqs[r].stages
                  /\ reqs[r].pc = "done" =>
                       /\ Len(reqs[r].emitted) = 1
                       /\ reqs[r].emitted[1].status
                            = ConditionStatus(Conditions[i]).v
          /\ NoMatch(reqs[r]) =>
                IF Truthy(endpoint.staticResponse)
                THEN reqs[r].send.data = endpoint.staticResponse
                ELSE "generate" \in reqs[r].stages

\* a request matched both the first and the second condition and was
\* answered by the first, whose status differs from the second's
C7_Witness ==
    \E r \in Requests :
        /\ Len(Conditions) = 2
        /\ PastLookup(reqs[r])
        /\ Matches(Conditions[1], reqs[r])
        /\ Matches(Conditions[2], reqs[r])
        /\ ConditionStatus(Conditions[1]) # ConditionStatus(Conditions[2])
        /\ reqs[r].pc = "done"
        /\ reqs[r].emitted[1].status = ConditionStatus(Conditions[1]).v

\* the request is one the static response answers
StaticCase(r) ==
    PastLookup(r) /\ NoMatch(r) /\ Truthy(endpoint.staticResponse)

\* C8: when staticResponse is configured and no condition matches, a
\* request not stopped by the method check, error injection or a cache hit
\* is sent the static response under the endpoint's status; it generates no
\* record, draws nothing from the generator and stores nothing, and the
\* body emitted for it is the static response (in the endpoint's format).
C8_StaticResponse ==
    [][/\ (Arrived /\ StaticCase(New)) =>
            /\ New.kind = "send"
            /\ New.send.data = endpoint.staticResponse
            /\ New.send.status = ConfiguredStatus
            /\ "generate" \notin New.stages
            /\ fakerState' = Seeded(endpoint, fakerState)
            /\ cacheStore' = cacheStore
       /\ \A r \in 1..Len(reqs') :
            (StaticCase(reqs'[r]) /\ reqs'[r].pc = "done") =>
               reqs'[r].emitted =
                 <<JsonResponse(ConfiguredStatus,
                                Formatted(endpoint.staticResponse))>>
      ]_vars

\* a request that matched none of the configured conditions was answered,
\* after the delay, by the static response under the configured status
C8_Witness ==
    \E r \in Requests :
        /\ Len(Conditions) = 2
        /\ StaticCase(reqs[r])
        /\ Truthy(endpoint.status) /\ Truthy(endpoint.delay)
        /\ reqs[r].pc = "done"
        /\ reqs[r].emitted =
             <<JsonResponse(endpoint.status,
                            Formatted(endpoint.staticResponse))>>

\* C9: every payload handed to sendResponse, whether cached, from a
\* condition, static or generated, is emitted as the JSON of responseFormat
\* applied to it when the endpoint has a responseFormat.
C9_FormatOnEveryPayload ==
    \A r \in Requests :
        (reqs[r].kind = "send" /\ reqs[r].pc = "done") =>
           reqs[r].emitted =
             <<JsonResponse(reqs[r].send.status, Formatted(reqs[r].send.data))>>

\* C10: for an endpoint with a numeric seed, two requests with the same url
\* and query that both generate their records get identical bodies.
C10_SeedDeterminism ==
    endpoint.seed.k = "num" =>
      \A i \in Requests, j \in Requests :
         ( /\ "generate" \in reqs[i].stages
           /\ "generate" \in reqs[j].stages
           /\ reqs[i].query = reqs[j].query
           /\ reqs[i].pc = "done" /\ reqs[j].pc = "done" ) =>
              reqs[i].emitted = reqs[j].emitted

----------------------------------------------------------------------------
(* Properties of the record pipeline, checked under SpecListing.           *)

\* the request generated records and was sent the list envelope
Listed(r) ==
    /\ "generate" \in r.stages
    /\ r.kind = "send"
    /\ ~Truthy(endpoint.singular)

\* the records of a list envelope, and their ids
DataOf(body) == Prop(body, sData).v
IdsOf(records) == [i \in 1..Len(records) |-> Prop(records[i], sId)]

\* the ids first..last in ascending order, none when last < first
IdRange(first, last) ==
    [i \in 1..(IF last < first THEN 0 ELSE last - first + 1) |->
        Num(first + i - 1)]

\* the number a query parameter asks for, NaN when it is not numeric, and
\* the configured value when the parameter is absent
Asked(r, name, configured) ==
    IF \E i \in 1..Len(r.query) : r.query[i][1] = name
    THEN ParseInt(SearchParamsGet(r.query, name).v)
    ELSE configured

\* a positive perPage is asked for and pagination is not switched off
Paginated(r) ==
    /\ endpoint.pagination # Bool(FALSE)
    /\ Asked(r, sPerPage, endpoint.perPage).k = "num"
    /\ Asked(r, sPerPage, endpoint.perPage).v > 0

\* the query asks for no search, filter or sort
WindowOnly(r) ==
    \A i \in 1..Len(r.query) : r.query[i][1] \in {sPage, sPerPage, sTotal}

WindowStart(body) ==
    (Prop(body, sPage).v - 1) * Prop(body, sPerPage).v + 1

WindowEnd(body) ==
    IF WindowStart(body) + Prop(body, sPerPage).v - 1 <= Prop(body, sTotal).v
    THEN WindowStart(body) + Prop(body, sPerPage).v - 1
    ELSE Prop(body, sTotal).v

\* C11: a paginated list request without search, filter or sort is answered
\* with per_page as asked, and its data holds exactly one record per id from
\* startId = (page-1)*perPage + 1 to endId = min(startId+perPage-1, total),
\* in ascending order, page and total being those the response reports.
C11_PageWindow ==
    \A r \in Requests :
        (Listed(reqs[r]) /\ Paginated(reqs[r]) /\ WindowOnly(reqs[r])) =>
           /\ Prop(reqs[r].send.data, sPerPage)
                = Asked(reqs[r], sPerPage, endpoint.perPage)
           /\ IdsOf(DataOf(reqs[r].send.data))
                = IdRange(WindowStart(reqs[r].send.data),
                          WindowEnd(reqs[r].send.data))

\* total=25, perPage=10, page=2 gave the ten records with ids 11..20 of
\* three pages
C11_Witness ==
    \E r \in Requests :
        /\ endpoint.total = Num(25) /\ endpoint.perPage = Num(10)
        /\ reqs[r].query = << <<sPage, <<"2">> >> >>
        /\ Listed(reqs[r])
        /\ IdsOf(DataOf(reqs[r].send.data)) = IdRange(11, 20)
        /\ Prop(reqs[r].send.data, sTotalPages) = Num(3)

\* C12: whatever the page parameter is (absent, zero, negative, not a
\* number, beyond the last page), the page the response reports lies in
\* 1..total_pages.
C12_PageClamped ==
    \A r \in Requests :
        Listed(reqs[r]) =>
           /\ Prop(reqs[r].send.data, sPage).k = "num"
           /\ Prop(reqs[r].send.data, sPage).v >= 1
           /\ Prop(reqs[r].send.data, sPage).v
                <= Prop(reqs[r].send.data, sTotalPages).v

\* the default number of records per page, and of records
DefaultPerPage == 10
DefaultTotal == 10

\* the query's value when present and numeric, else the configured value,
\* else the default
Resolved(r, name, configured, default) ==
    IF Asked(r, name, configured).k = "num" THEN Asked(r, name, configured)
    ELSE IF configured.k = "num" THEN configured
    ELSE Num(default)

\* C13: total resolves to the query's value when it is present and numeric,
\* else to the configured value, else to 10, and so does perPage for an
\* endpoint with pagination: true.
C13_ResolutionOrder ==
    \A r \in Requests :
        Listed(reqs[r]) =>
           /\ Prop(reqs[r].send.data, sTotal)
                = Resolved(reqs[r], sTotal, endpoint.total, DefaultTotal)
           /\ endpoint.pagination = Bool(TRUE) =>
                Prop(reqs[r].send.data, sPerPage)
                  = Resolved(reqs[r], sPerPage, endpoint.perPage,
                             DefaultPerPage)

\* the default total the documentation gives
DocumentedTotal == 100

\* C14: an endpoint with neither total nor perPage configured, asked without
\* query parameters, answers with total = 100 and per_page = 10.
C14_DocumentedDefaults ==
    \A r \in Requests :
        ( /\ Listed(reqs[r])
          /\ endpoint.total = Undefined /\ endpoint.perPage = Undefined
          /\ reqs[r].query = <<>> ) =>
             /\ Prop(reqs[r].send.data, sTotal) = Num(DocumentedTotal)
             /\ Prop(reqs[r].send.data, sPerPage) = Num(DefaultPerPage)

\* pagination: true, or a positive perPage asked for and pagination not false
PaginationExpected(r) == endpoint.pagination = Bool(TRUE) \/ Paginated(r)

\* C15: pagination is enabled exactly when pagination is true, or a positive
\* perPage is resolvable and pagination is not false; a request for which
\* it is not enabled gets the full dataset, ids 1..total, and one for which
\* it is enabled with a positive perPage gets no more than perPage records.
C15_PaginationEnabled ==
    \A r \in Requests :
        Listed(reqs[r]) =>
           IF PaginationExpected(reqs[r])
           THEN (Paginated(reqs[r]) /\ WindowOnly(reqs[r])) =>
                  Len(DataOf(reqs[r].send.data))
                    <= Asked(reqs[r], sPerPage, endpoint.perPage).v
           ELSE WindowOnly(reqs[r]) =>
                  IdsOf(DataOf(reqs[r].send.data))
                    = IdRange(1, Prop(reqs[r].send.data, sTotal).v)

\* the query without the parameters of the given names
Without(query, names) == SelectSeq(query, LAMBDA pair : pair[1] \notin names)

HasParam(r, name) == \E i \in 1..Len(r.query) : r.query[i][1] = name

\* the records the endpoint e lists for a query from the present seed state
ListFor(e, query) ==
    DataOf(Handle(e, [method |-> GET, headers |-> EmptyObj, query |-> query],
                  0, <<>>, fakerState).send.data)

\* the endpoint as a list endpoint
AsList == [endpoint EXCEPT !.singular = Undefined]

EnvelopeKeys == {sData, sPage, sPerPage, sTotal, sTotalPages}

FirstOrEmpty(records) == IF records = <<>> THEN EmptyObj ELSE records[1]

\* C16: a singular endpoint answers with a bare record that has none of the
\* envelope keys data, page, per_page, total, total_pages: the first of the
\* records the same request leaves on the list endpoint after search, filter
\* and sort, or the empty mapping when it leaves none.
C16_SingularShape ==
    [][( /\ Arrived
         /\ Truthy(endpoint.singular)
         /\ "generate" \in New.stages
         /\ New.kind = "send" ) =>
           /\ \A key \in EnvelopeKeys : ~HasKey(New.send.data.v, key)
           /\ New.send.data = FirstOrEmpty(ListFor(AsList, New.query))
           /\ New.emitted = <<JsonResponse(Num(200), New.send.data)>>
      ]_vars

\* a singular endpoint answered a search with a record that is not the
\* first one generated
C16_Witness ==
    \E r \in Requests :
        /\ Truthy(endpoint.singular)
        /\ HasParam(reqs[r], sQ)
        /\ "generate" \in reqs[r].stages
        /\ Prop(reqs[r].send.data, sId).k = "num"
        /\ Prop(reqs[r].send.data, sId).v > 1
        /\ reqs[r].pc = "done"

\* s contains t as a substring
Contains(s, t) ==
    \E i \in 0..Len(s) :
        /\ i + Len(t) <= Len(s)
        /\ \A j \in 1..Len(t) : s[i + j] = t[j]

\* some field value of the record, in string form, contains the text
\* without regard to case
Mentions(record, text) ==
    \E j \in 1..Len(record.v) :
        Contains(ToLowerCase(ToText(record.v[j][2])), ToLowerCase(text))

\* the request names no field to sort by
NoSortAsked(r) == ~HasParam(r, sSort) /\ ~HasParam(r, sBy)

FilterAsked(r) ==
    /\ HasParam(r, sFilter)
    /\ HasParam(r, SearchParamsGet(r.query, sFilter).v)
    /\ ~HasParam(r, sQ)
    /\ NoSortAsked(r)

FilterFieldOf(r) == SearchParamsGet(r.query, sFilter).v

\* C18: with filter=F and F=V in the query, the data is the data of the same
\* request without the two parameters, less the records whose field F in
\* string form is not exactly V.
C18_FilterExact ==
    [][(Arrived /\ Listed(New) /\ FilterAsked(New)) =>
           DataOf(New.send.data)
             = SelectSeq(ListFor(endpoint,
                                 Without(New.query,
                                         {sFilter, FilterFieldOf(New)})),
                         LAMBDA record :
                            ToText(Prop(record, FilterFieldOf(New)))
                              = SearchParamsGet(New.query,
                                                FilterFieldOf(New)).v)
      ]_vars

\* the name of the endpoint's sort parameter
SortKey ==
    IF Truthy(Prop(endpoint.queryParams, sSort))
    THEN Prop(endpoint.queryParams, sSort).v ELSE sSort

\* the request names a field to sort by
SortAsked(r) == HasParam(r, SortKey)

SortFieldOf(r) == SearchParamsGet(r.query, SortKey).v

Carries(record, field) == Prop(record, field) # Undefined

AllCarry(records, field) ==
    \A i \in 1..Len(records) : Carries(records[i], field)

\* non-decreasing by the field, or non-increasing when descending
Ordered(records, field, descending) ==
    \A i \in 1..Len(records), j \in 1..Len(records) :
        i < j =>
          IF descending
          THEN ~Less(Prop(records[i], field), Prop(records[j], field))
          ELSE ~Less(Prop(records[j], field), Prop(records[i], field))

\* the position of a record in a list of records with distinct ids
PositionIn(records, record) ==
    CHOOSE i \in 1..Len(records) : records[i] = record

IsPermutation(after, before) ==
    /\ Len(after) = Len(before)
    /\ \A i \in 1..Len(before) : \E j \in 1..Len(after) : after[j] = before[i]

\* no record that lacks the field has changed sides with another record
KeepsPlace(after, before, field) ==
    \A i \in 1..Len(before), j \in 1..Len(before) :
        ( /\ i < j
          /\ ~(Carries(before[i], field) /\ Carries(before[j], field)) ) =>
             PositionIn(after, before[i]) < PositionIn(after, before[j])

ConfiguredDescending == Prop(endpoint.queryParams, sOrder) = Str(sDesc)

Sorted(after, before, field) ==
    /\ IsPermutation(after, before)
    /\ AllCarry(before, field) => Ordered(after, field, ConfiguredDescending)
    /\ IsPermutation(after, before) => KeepsPlace(after, before, field)

\* C19: when the sort parameter names a field, the data is a permutation of
\* the records the same request leaves without it; when every record
\* carries the field it is ordered by it, non-decreasing, or non-increasing
\* under queryParams.order desc; and a record that lacks the field keeps
\* its place before or after every other record.
C19_SortPermutes ==
    [][(Arrived /\ Listed(New) /\ SortAsked(New)) =>
           Sorted(DataOf(New.send.data),
                  ListFor(endpoint, Without(New.query, {SortKey})),
                  SortFieldOf(New))
      ]_vars

\* C20 as stated: the direction is the request's order parameter: desc
\* sorts descending, anything else ascending.
C20_OrderFromRequest ==
    \A r \in Requests :
        ( /\ Listed(reqs[r])
          /\ SortAsked(reqs[r])
          /\ AllCarry(DataOf(reqs[r].send.data), SortFieldOf(reqs[r])) ) =>
             Ordered(DataOf(reqs[r].send.data), SortFieldOf(reqs[r]),
                     SearchParamsGet(reqs[r].query, sOrder) = Str(sDesc))

\* C20 as amended: the direction is the endpoint's queryParams.order: desc
\* sorts descending, asc and any other or absent value ascending, whatever
\* order parameter the request carries.
C20_OrderFromConfig ==
    \A r \in Requests :
        ( /\ Listed(reqs[r])
          /\ SortAsked(reqs[r])
          /\ AllCarry(DataOf(reqs[r].send.data), SortFieldOf(reqs[r])) ) =>
             IF Prop(endpoint.queryParams, sOrder) = Str(sDesc)
             THEN Ordered(DataOf(reqs[r].send.data), SortFieldOf(reqs[r]), TRUE)
             ELSE Ordered(DataOf(reqs[r].send.data), SortFieldOf(reqs[r]), FALSE)

\* an endpoint with order desc, asked to sort by id with order=asc, listed
\* its four records from id 4 down to id 1
C20_Witness ==
    \E r \in Requests :
        /\ Prop(endpoint.queryParams, sOrder) = Str(sDesc)
        /\ SortAsked(reqs[r])
        /\ SortFieldOf(reqs[r]) = sId
        /\ SearchParamsGet(reqs[r].query, sOrder) = Str(sAsc)
        /\ Listed(reqs[r])
        /\ IdsOf(DataOf(reqs[r].send.data)) = <<Num(4), Num(3), Num(2), Num(1)>>

----------------------------------------------------------------------------
(* Properties of value resolution, checked under SpecResolve.              *)

\* the entries of the endpoint's responseProps
Props == IF endpoint.responseProps.k = "obj" THEN endpoint.responseProps.v
         ELSE <<>>

HasDot(text) == \E i \in 1..Len(text) : text[i] = "."

HasDouble(text) ==
    \E i \in 1..(Len(text) - 1) : text[i] = "." /\ text[i + 1] = "."

\* the text from position i on with every '..' read as one '.'
RECURSIVE Unescaped(_, _)
Unescaped(text, i) ==
    IF i > Len(text) THEN <<>>
    ELSE IF i < Len(text) /\ text[i] = "." /\ text[i + 1] = "."
         THEN <<".">> \o Unescaped(text, i + 2)
         ELSE <<text[i]>> \o Unescaped(text, i + 1)

\* the member of the generator a dotted path names, undefined when a
\* segment is missing
MemberAt(text) == Lookup(faker, SplitDots(text, <<>>))

\* a string that is read as a path where it stands: directly under a
\* responseProps key when it has a period and no '..', anywhere deeper always
ReadAsPath(value, top) ==
    /\ value.k = "str"
    /\ top => (HasDot(value.v) /\ ~HasDouble(value.v))

\* the definition holds a path that names no member of the generator
RECURSIVE Unresolvable(_, _)
Unresolvable(value, top) ==
    CASE value.k = "str" ->
            ReadAsPath(value, top) /\ MemberAt(value.v).k = "undefined"
      [] value.k = "arr" ->
            \E i \in 1..Len(value.v) : Unresolvable(value.v[i], FALSE)
      [] value.k = "obj" ->
            \E i \in 1..Len(value.v) : Unresolvable(value.v[i][2], FALSE)
      [] OTHER -> FALSE

SomeUnresolvable == \E j \in 1..Len(Props) : Unresolvable(Props[j][2], TRUE)

\* the number of generator calls that resolving a definition makes
RECURSIVE Calls(_, _)
RECURSIVE CallsIn(_, _)
Calls(value, top) ==
    CASE value.k = "fn"  -> 1
      [] value.k = "str" ->
            IF ReadAsPath(value, top) /\ MemberAt(value.v).k = "fn" THEN 1
            ELSE 0
      [] value.k = "arr" -> CallsIn(value.v, Len(value.v))
      [] value.k = "obj" -> CallsIn(Values(value), Len(value.v))
      [] OTHER -> 0

\* ... by the first n of a sequence of nested definitions
CallsIn(values, n) ==
    IF n = 0 THEN 0 ELSE CallsIn(values, n - 1) + Calls(values[n], FALSE)

\* ... by the first n entries of responseProps
RECURSIVE CallsInProps(_)
CallsInProps(n) ==
    IF n = 0 THEN 0 ELSE CallsInProps(n - 1) + Calls(Props[n][2], TRUE)

\* the seed state in which entry j of record i is resolved, the request
\* having started in seed state s
StateAt(s, i, j) ==
    (s + (i - 1) * CallsInProps(Len(Props)) + CallsInProps(j - 1)) % FakerMod

\* what the generator member named by a path gives in seed state s
GeneratorValue(text, s) == Invoke(MemberAt(text), s).val

\* the request got as far as generating records
Generates(r) == "generate" \in r.stages

\* the page window of the request holds a record to generate
WindowHoldsRecord(r) ==
    ~( /\ endpoint.pagination = Bool(TRUE)
       /\ Asked(r, sPerPage, endpoint.perPage).k # "num" )

\* the records of a result: those of the list, or the one record a singular
\* endpoint sends
RecordsOf(r) ==
    IF ~Truthy(endpoint.singular) THEN DataOf(r.send.data)
    ELSE IF r.send.data = EmptyObj THEN <<>>
    ELSE <<r.send.data>>

\* C21: a string directly under a responseProps key that contains '..' is
\* never resolved as a generator path: unless another property fails, the
\* request succeeds and every record holds the string with each '..' replaced
\* by one '.', and resolving it draws nothing from the generator; a string
\* with a period and no '..' is resolved as a path: the record holds what
\* the named generator member gives, and the request fails when the path
\* names none.
C21_EscapedPeriods ==
    [][(Arrived /\ Generates(New)) =>
         \A j \in 1..Len(Props) :
            Props[j][2].k = "str" =>
              IF HasDouble(Props[j][2].v)
              THEN /\ ~SomeUnresolvable => New.kind = "send"
                   /\ Calls(Props[j][2], TRUE) = 0
                   /\ Len(Props) = 1 => fakerState' = fakerState
                   /\ New.kind = "send" =>
                        \A i \in 1..Len(RecordsOf(New)) :
                           Prop(RecordsOf(New)[i], Props[j][1])
                             = Str(Unescaped(Props[j][2].v, 1))
              ELSE HasDot(Props[j][2].v) =>
                   IF MemberAt(Props[j][2].v).k = "undefined"
                   THEN WindowHoldsRecord(New) => New.kind = "throw"
                   ELSE New.kind = "send" =>
                          \A i \in 1..Len(RecordsOf(New)) :
                             Prop(RecordsOf(New)[i], Props[j][1])
                               = GeneratorValue(Props[j][2].v,
                                                StateAt(fakerState, i, j))
      ]_vars

\* a singular endpoint with {k: 'Hi.. a.'} answered with k = 'Hi. a.'
C21_Witness ==
    \E r \in Requests :
        /\ Truthy(endpoint.singular)
        /\ Props = << <<sKey, Str(<<"H", "i", ".", ".", " ", "a", ".">>)>> >>
        /\ reqs[r].pc = "done"
        /\ Len(reqs[r].emitted) = 1
        /\ Prop(reqs[r].emitted[1].body, sKey)
             = Str(<<"H", "i", ".", " ", "a", ".">>)

\* the error a path that names no generator member is reported with
InvalidPathError(text) == Error(sInvalidFakerPath \o text)

\* the texts of the unresolvable paths of a definition
RECURSIVE UnresolvablePaths(_, _)
UnresolvablePaths(value, top) ==
    CASE value.k = "str" ->
            IF Unresolvable(value, top) THEN {value.v} ELSE {}
      [] value.k = "arr" ->
            UNION {UnresolvablePaths(value.v[i], FALSE) : i \in 1..Len(value.v)}
      [] value.k = "obj" ->
            UNION {UnresolvablePaths(value.v[i][2], FALSE) :
                     i \in 1..Len(value.v)}
      [] OTHER -> {}

\* C22: a request that gets to generate at least one record while
\* responseProps holds a dotted path that names no generator member fails
\* with the error 'Invalid Faker path: <the path>': the handler's promise
\* rejects, nothing is emitted or stored for the request then or later, and
\* no record with a null in the path's place is sent.
C22_InvalidPathFails ==
    [][/\ ( /\ Arrived
            /\ Generates(New)
            /\ WindowHoldsRecord(New)
            /\ SomeUnresolvable ) =>
              /\ New.kind = "throw"
              /\ New.promise = "rejected"
              /\ New.pc = "failed"
              /\ New.emitted = <<>>
              /\ \E j \in 1..Len(Props) :
                    \E text \in UnresolvablePaths(Props[j][2], TRUE) :
                       New.send.data = InvalidPathError(text)
              /\ cacheStore' = cacheStore
       /\ \A r \in Requests : reqs[r].pc = "failed" => reqs'[r] = reqs[r]
      ]_vars

\* a request to an endpoint with {name: 'word.noun', k: 'word.nope'} was
\* rejected with 'Invalid Faker path: word.nope'
C22_Witness ==
    \E r \in Requests :
        /\ Len(Props) = 2
        /\ Props[2][2] = Str(Dotted(sWord, sNope))
        /\ reqs[r].promise = "rejected"
        /\ reqs[r].emitted = <<>>
        /\ reqs[r].send.data = InvalidPathError(Dotted(sWord, sNope))

\* val is what the nested definition def resolves to from seed state s: an
\* array element by element, a mapping key by key, a literal as itself, a
\* path or callback as what the generator gives where its turn comes
RECURSIVE ResolvedFrom(_, _, _)
ResolvedFrom(def, val, s) ==
    CASE def.k = "arr" ->
            /\ val.k = "arr"
            /\ Len(val.v) = Len(def.v)
            /\ \A i \in 1..Len(def.v) :
                  ResolvedFrom(def.v[i], val.v[i],
                               (s + CallsIn(def.v, i - 1)) % FakerMod)
      [] def.k = "obj" ->
            /\ val.k = "obj"
            /\ Len(val.v) = Len(def.v)
            /\ \A i \in 1..Len(def.v) :
                  /\ val.v[i][1] = def.v[i][1]
                  /\ ResolvedFrom(def.v[i][2], val.v[i][2],
                                  (s + CallsIn(Values(def), i - 1)) % FakerMod)
      [] def.k \in {"num", "bool", "null"} -> val = def
      [] def.k = "str" -> val = GeneratorValue(def.v, s)
      [] def.k = "fn" -> val = Invoke(def, s).val
      [] OTHER -> FALSE

\* the values under responseProps keys that resolveFakerValue resolves as
\* structures or literals
Structured(value) == value.k \in {"arr", "obj", "null"}

\* C23: resolveFakerValue keeps the structure of its definition: in every
\* record sent, the value under a key whose definition is an array is an
\* array of the same length whose i-th element is the resolution of the i-th
\* definition, under a mapping a mapping with the same keys, each holding
\* the resolution of its value, at every depth, and a number, boolean or
\* null inside is returned unchanged.
C23_StructurePreserved ==
    [][(Arrived /\ Generates(New) /\ New.kind = "send") =>
         \A j \in 1..Len(Props) :
            Structured(Props[j][2]) =>
              \A i \in 1..Len(RecordsOf(New)) :
                 ResolvedFrom(Props[j][2],
                              Prop(RecordsOf(New)[i], Props[j][1]),
                              StateAt(fakerState, i, j))
      ]_vars

\* the second record of a list built from {name: 'word.noun', k: [...]}
\* holds the five elements of the nested list, the literals 5, null and
\* false among them, and a mapping with the keys k and name in the last place
C23_Witness ==
    \E r \in Requests :
        /\ Len(Props) = 2
        /\ Props[2][2] = NestedList
        /\ reqs[r].kind = "send"
        /\ Len(RecordsOf(reqs[r])) = 2
        /\ Len(Prop(RecordsOf(reqs[r])[2], sKey).v) = 5
        /\ SubSeq(Prop(RecordsOf(reqs[r])[2], sKey).v, 2, 4)
             = <<Num(5), Null, Bool(FALSE)>>
        /\ Prop(RecordsOf(reqs[r])[2], sKey).v[1].k = "str"
        /\ Prop(Prop(RecordsOf(reqs[r])[2], sKey).v[5], sName).k = "arr"
        /\ Prop(Prop(RecordsOf(reqs[r])[2], sKey).v[5], sKey).k = "num"

----------------------------------------------------------------------------
(* Properties of the plugin, checked under SpecPlugin.                     *)

\* the options the plugin is given: the inline value, or what the file at
\* the path holds (nothing when there is no such file or it is no JSON)
GivenOptions ==
    IF optionsOrPath.k # "str" THEN optionsOrPath
    ELSE IF \E i \in 1..Len(Files) : PathOf(i) = optionsOrPath
         THEN Files[CHOOSE i \in 1..Len(Files) : PathOf(i) = optionsOrPath]
         ELSE Undefined

HasEndpointsArray ==
    /\ GivenOptions.k = "obj"
    /\ Prop(GivenOptions, sEndpoints).k = "arr"

ConfiguredEndpoints == Prop(GivenOptions, sEndpoints).v

\* C24: when the plugin options, inline or loaded from a file, have no
\* endpoints array, constructing the plugin throws and no handler is ever
\* registered (and no request served); otherwise construction succeeds and
\* configuring the server registers exactly one handler per configured
\* endpoint, in list order, each under its endpoint's url, and none before.
C24_EndpointsRequired ==
    IF ~HasEndpointsArray
    THEN /\ plugin \in {"none", "thrown"}
         /\ middlewares = <<>>
         /\ reqs = <<>>
    ELSE /\ plugin # "thrown"
         /\ plugin \in {"none", "created"} => middlewares = <<>>
         /\ plugin = "configured" =>
              /\ Len(middlewares) = Len(ConfiguredEndpoints)
              /\ \A i \in 1..Len(ConfiguredEndpoints) :
                    /\ middlewares[i].route = ConfiguredEndpoints[i].url
                    /\ middlewares[i].handle = ConfiguredEndpoints[i]

\* a plugin given the path of a file with two endpoints registered the two
\* handlers in the file's order, and the server has answered a request
C24_Witness ==
    /\ optionsOrPath = PathOf(1)
    /\ plugin = "configured"
    /\ Len(middlewares) = 2
    /\ middlewares[1].route = Str(<<"/", "a">>)
    /\ middlewares[2].route = Str(<<"/", "b">>)
    /\ Len(reqs) = 1

\* the endpoint has its required fields url and responseProps
Complete(e) == e.url.k = "str" /\ Truthy(e.responseProps)

\* C25: createEndpointHandler fails at construction when the endpoint config
\* lacks url or responseProps: no handler exists for such an endpoint, and
\* so no request is ever handled, or fails, for the lack of them.
C25_FailsAtConstruction ==
    /\ \A i \in 1..Len(middlewares) : Complete(middlewares[i].handle)
    /\ reqs # <<>> => Complete(endpoint)

----------------------------------------------------------------------------
(* Properties of the handler's stages and cache, checked under Spec.       *)

\* request i generated its data and is still in flight: its response waits
\* for the delay
InFlight(i) == Generates(reqs[i]) /\ reqs[i].pc = "waiting"

\* the arriving request has the key of request i, which is in flight, and is
\* one that generates when it is on its own
Overlaps(i) ==
    /\ Arrived
    /\ i \in Requests
    /\ InFlight(i)
    /\ New.query = reqs[i].query
    /\ ReachedLookup(New)
    /\ NoMatch(New)
    /\ ~Truthy(endpoint.staticResponse)

\* the step completes request r
Completes(r) == reqs[r].pc = "waiting" /\ reqs'[r].pc = "done"

\* C26 as stated: a request that arrives while another with the same cache
\* key is in flight generates its own data and reuses nothing of the
\* other's, and the one that completes last leaves its data in the slot.
C26_EachGenerates ==
    [][/\ \A i \in Requests :
            (Overlaps(i) /\ Truthy(endpoint.cache)) =>
               /\ Generates(New)
               /\ "cacheGet" \notin New.stages
       /\ \A r \in Requests :
            ( /\ Completes(r)
              /\ Truthy(endpoint.cache)
              /\ Generates(reqs[r])
              /\ \A o \in Requests : o # r => reqs[o].pc # "waiting" ) =>
                 cacheStore'[CacheKey(endpoint, reqs[r].query)]
                   = reqs[r].send.data
      ]_vars

\* C26 as amended: with cache enabled, a request that arrives while another
\* with the same cache key is in flight generates nothing: the first stored
\* its result before its delay, the second is sent that stored value, and
\* the slot keeps it whichever of the two completes last; only with cache
\* disabled does each of them generate its own data, and nothing is stored.
C26_InFlightReuse ==
    [][/\ \A i \in Requests :
            Overlaps(i) =>
               IF Truthy(endpoint.cache)
               THEN /\ ~Generates(New)
                    /\ "cacheGet" \in New.stages
                    /\ New.send.data = reqs[i].send.data
                    /\ cacheStore[CacheKey(endpoint, New.query)]
                         = reqs[i].send.data
                    /\ cacheStore' = cacheStore
                    /\ fakerState' = fakerState
               ELSE /\ Generates(New)
                    /\ cacheStore' = cacheStore
       /\ \A r \in Requests : Completes(r) => cacheStore' = cacheStore
      ]_vars

\* two requests with the same key are in flight together on a caching
\* endpoint: the first generated, the second was served the first's value
C26_Witness ==
    /\ Len(reqs) = 2
    /\ Truthy(endpoint.cache)
    /\ InFlight(1)
    /\ reqs[2].pc = "waiting"
    /\ reqs[2].query = reqs[1].query
    /\ "cacheGet" \in reqs[2].stages
    /\ reqs[2].send.data = reqs[1].send.data

\* the request's draw fell below the endpoint's error rate
Injected(r) ==
    /\ endpoint.errorRate.k = "num"
    /\ r.draw >= 0
    /\ r.draw < endpoint.errorRate.v

\* an error is certain: the rate is 1.0
AlwaysInjected == endpoint.errorRate = Num(RandomRes)

\* the store holds an entry under the request's key and caching is on
EntryFor(r) ==
    Truthy(endpoint.cache) /\ CacheKey(endpoint, r.query) \in DOMAIN cacheStore

\* C27: the first applicable stage, in the order method check, error
\* injection, cache lookup, condition match, static response, generation,
\* decides the response: a disallowed method gives 405 whatever the error
\* rate and the cache hold; an injected error gives 500 whatever the cache
\* holds; an entry under the key is sent whatever conditions match and
\* whether a static response is configured; the first matching condition
\* answers before the static response; the static response before generation.
C27_FirstStageDecides ==
    [][Arrived =>
         IF NotAllowed(New)
         THEN New.emitted = <<MethodNotAllowedResponse>>
         ELSE IF Injected(New) \/ AlwaysInjected
         THEN /\ New.emitted = <<SimulatedErrorResponse>>
              /\ "cacheGet" \notin New.stages
         ELSE IF EntryFor(New)
         THEN /\ New.kind = "send"
              /\ New.send.data = cacheStore[CacheKey(endpoint, New.query)]
              /\ "conditions" \notin New.stages
         ELSE IF ~NoMatch(New)
         THEN /\ New.kind = "send"
              /\ \E i \in 1..Len(Conditions) :
                    /\ FirstMatch(i, New)
                    /\ New.send.data = ConditionPayload(Conditions[i])
                    /\ New.send.status = ConditionStatus(Conditions[i])
              /\ ~Generates(New)
         ELSE IF Truthy(endpoint.staticResponse)
         THEN /\ New.kind = "send"
              /\ New.send.data = endpoint.staticResponse
              /\ ~Generates(New)
         ELSE Generates(New)
      ]_vars

\* on an endpoint with error rate 0.5, a cache entry, conditions and a static
\* response, one request was answered 500 and the next, whose header matches
\* a condition, out of the cache
C27_Witness ==
    /\ Len(reqs) = 2
    /\ endpoint.errorRate = Num(1)
    /\ Truthy(endpoint.cache)
    /\ Truthy(endpoint.staticResponse)
    /\ Len(Conditions) = 2
    /\ reqs[1].query = <<>> /\ reqs[2].query = <<>>
    /\ reqs[1].emitted = <<SimulatedErrorResponse>>
    /\ Matches(Conditions[1], reqs[2])
    /\ "cacheGet" \in reqs[2].stages
    /\ reqs[2].send.data = EarlierPayload

\* a payload that responseFormat has not been applied to
Unformatted(data) == data.k = "obj" /\ ~HasKey(data.v, sItems)

\* the body carries the payload under exactly one application of the
\* endpoint's responseFormat, or as it is when the endpoint has none
FormattedOnce(body, data) ==
    IF endpoint.responseFormat.k = "fn"
    THEN /\ body.k = "obj"
         /\ Len(body.v) = 1
         /\ Prop(body, sItems) = JsonValue(data)
         /\ Unformatted(Prop(body, sItems))
    ELSE body = JsonValue(data)

\* the request was answered with generated data or out of the cache
FromPipeline(r) == r.kind = "send" /\ (Generates(r) \/ "cacheGet" \in r.stages)

\* C28: on a cache miss that generates with cache enabled, the value stored
\* under the request's key is the shaped result, before responseFormat, and
\* it is in the store in the very step the handler runs, before the delay
\* and the dispatch; every body emitted for a generated or cached payload,
\* on the first response and on every later hit, carries responseFormat
\* applied exactly once.
C28_StoredBeforeFormat ==
    [][/\ ( /\ Arrived
            /\ Truthy(endpoint.cache)
            /\ Generates(New)
            /\ New.kind = "send" ) =>
              /\ CacheKey(endpoint, New.query) \in DOMAIN cacheStore'
              /\ cacheStore'[CacheKey(endpoint, New.query)] = New.send.data
              /\ Unformatted(New.send.data)
              /\ HasKey(New.send.data.v, sData)
              /\ Truthy(endpoint.delay) =>
                   New.pc = "waiting" /\ New.emitted = <<>>
       /\ \A r \in 1..Len(reqs') :
            (FromPipeline(reqs'[r]) /\ reqs'[r].pc = "done") =>
               /\ Len(reqs'[r].emitted) = 1
               /\ Unformatted(reqs'[r].send.data)
               /\ FormattedOnce(reqs'[r].emitted[1].body, reqs'[r].send.data)
      ]_vars

\* on a caching endpoint with a responseFormat and a delay, the first
\* request generated and the second was a hit, and both bodies carry the
\* list envelope under one 'items' wrapper
C28_Witness ==
    /\ Len(reqs) = 2
    /\ Truthy(endpoint.cache)
    /\ Truthy(endpoint.delay)
    /\ endpoint.responseFormat.k = "fn"
    /\ StoredBy(1)
    /\ "cacheGet" \in reqs[2].stages
    /\ reqs[1].pc = "done" /\ reqs[2].pc = "done"
    /\ \A r \in Requests :
          /\ Len(reqs[r].emitted) = 1
          /\ HasKey(Prop(reqs[r].emitted[1].body, sItems).v, sData)

----------------------------------------------------------------------------
(* Further properties of the record pipeline, checked under SpecListing.   *)

\* ceil(a / b) for integers a and b # 0: the least integer not below a / b
CeilOf(a, b) ==
    CHOOSE n \in (-(IF a < 0 THEN 1 - a ELSE a + 1))
                    ..(IF a < 0 THEN 1 - a ELSE a + 1) :
        IF b > 0 THEN n * b >= a /\ (n - 1) * b < a
                 ELSE n * b <= a /\ (n - 1) * b > a

\* max(1, ceil(total / perPage))
PagesFor(total, perPage) ==
    IF CeilOf(total, perPage) > 1 THEN CeilOf(total, perPage) ELSE 1

\* C29: in every list response total_pages is an integer of at least 1,
\* whether perPage is unset, zero, negative or not a number, and whenever
\* the perPage asked for or configured is a number other than zero it is
\* max(1, ceil(total / perPage)) for the total the response reports.
C29_TotalPages ==
    \A r \in Requests :
        Listed(reqs[r]) =>
           /\ Prop(reqs[r].send.data, sTotalPages).k = "num"
           /\ Prop(reqs[r].send.data, sTotalPages).v >= 1
           /\ ( /\ Asked(reqs[r], sPerPage, endpoint.perPage).k = "num"
                /\ Asked(reqs[r], sPerPage, endpoint.perPage).v # 0 ) =>
                  Prop(reqs[r].send.data, sTotalPages).v
                    = PagesFor(Prop(reqs[r].send.data, sTotal).v,
                               Asked(reqs[r], sPerPage, endpoint.perPage).v)

\* asked for per_page=-2 of 25 records, a paginating endpoint reported one
\* page
C29_Witness ==
    \E r \in Requests :
        /\ endpoint.pagination = Bool(TRUE)
        /\ endpoint.total = Num(25)
        /\ SearchParamsGet(reqs[r].query, sPerPage) = Str(<<"-", "2">>)
        /\ ~HasParam(reqs[r], sTotal)
        /\ Listed(reqs[r])
        /\ Prop(reqs[r].send.data, sTotalPages) = Num(1)

\* C30: a singular endpoint generates exactly one record per request,
\* whatever the page window: the generator state advances by the calls of
\* one record, and without search or filter the record returned is that
\* record, with id 1.
C30_SingularOneRecord ==
    [][( /\ Arrived
         /\ Truthy(endpoint.singular)
         /\ Generates(New)
         /\ New.kind = "send" ) =>
           /\ fakerState' = (fakerState + CallsInProps(Len(Props))) % FakerMod
           /\ (~HasParam(New, sQ) /\ ~HasParam(New, sFilter)) =>
                Prop(New.send.data, sId) = Num(1)
      ]_vars

\* the records generated for the page window of the request, before search,
\* filter and sort
GeneratedFor(r) ==
    generateData(endpoint, DataLength(buildParams(endpoint, r.query)),
                 buildParams(endpoint, r.query).startId, 0, fakerState).val

\* every record of the list is one of the others
AllAmong(records, others) ==
    \A i \in 1..Len(records) : \E j \in 1..Len(others) : others[j] = records[i]

\* the records stand in the order they were generated in: ascending by id
InGeneratedOrder(records) ==
    \A i \in 1..Len(records), j \in 1..Len(records) :
        i < j => Prop(records[i], sId).v < Prop(records[j], sId).v

\* C31: search, filter and sort run in this order on the generated records,
\* and a stage whose parameter is absent changes nothing: the data holds
\* generated records only; with q, only records that mention it; without q
\* and filter, all of them; and without the sort parameter they stand in
\* the order they were generated in, whatever fields responseProps defines.
C31_AbsentStageNoOp ==
    [][(Arrived /\ Listed(New)) =>
          /\ \E all \in {GeneratedFor(New)} :
                AllAmong(DataOf(New.send.data), all)
          /\ HasParam(New, sQ) =>
               \A i \in 1..Len(DataOf(New.send.data)) :
                  Mentions(DataOf(New.send.data)[i],
                           SearchParamsGet(New.query, sQ).v)
          /\ (~HasParam(New, sQ) /\ ~HasParam(New, sFilter)) =>
               \E all \in {GeneratedFor(New)} :
                  IsPermutation(DataOf(New.send.data), all)
          /\ ~SortAsked(New) => InGeneratedOrder(DataOf(New.send.data))
      ]_vars

----------------------------------------------------------------------------
(* Properties of interleaving and completion, checked under Spec.          *)

\* the step leaves everything about request i but its emission as it was
OnlyEmits(i) ==
    /\ reqs'[i].stages = reqs[i].stages
    /\ reqs'[i].send = reqs[i].send
    /\ reqs'[i].kind = reqs[i].kind
    /\ reqs'[i] # reqs[i] => (reqs[i].pc = "waiting" /\ reqs'[i].pc = "done")

\* C32: the delay is the only suspension point of a request. The step in
\* which a request arrives runs all of its stages, from the method check to
\* the cache store, and touches no other request; the request is left
\* waiting only when it sends through sendResponse under a configured
\* delay, and is answered in that step otherwise. Every other step is the
\* end of one request's delay: it changes neither the cache nor the seed
\* state, nor the stages of any request.
C32_DelayOnlySuspension ==
    [][IF Arrived
       THEN /\ \A i \in Requests : reqs'[i] = reqs[i]
            /\ New.pc = "waiting" <=>
                 (New.kind = "send" /\ Truthy(endpoint.delay))
            /\ New.pc = "waiting" => New.emitted = <<>>
            /\ New.pc = "done" => Len(New.emitted) = 1
            /\ cacheStore' # cacheStore => "cacheSet" \in New.stages
            /\ fakerState' # fakerState =>
                 (Generates(New) \/ Truthy(endpoint.seed))
       ELSE /\ cacheStore' = cacheStore
            /\ fakerState' = fakerState
            /\ Len(reqs') = Len(reqs)
            /\ \A i \in Requests : OnlyEmits(i)
      ]_vars

\* while the first request waits in its delay, having looked up and stored
\* its result, a second arrived and was answered 500
C32_Witness ==
    /\ Len(reqs) = 2
    /\ reqs[1].pc = "waiting"
    /\ "cacheSet" \in reqs[1].stages
    /\ reqs[2].pc = "done"
    /\ reqs[2].emitted = <<SimulatedErrorResponse>>

\* the request has been answered: its response was ended once
Answered(r) == r \in Requests /\ Len(reqs[r].emitted) = 1

\* no request has more than one response, one that is through has exactly
\* one, and one that still waits has none
OneResponseAtMost ==
    \A r \in Requests :
        /\ Len(reqs[r].emitted) <= 1
        /\ reqs[r].pc = "done" => Len(reqs[r].emitted) = 1
        /\ reqs[r].pc = "waiting" => reqs[r].emitted = <<>>

\* C33: every request whose handling raises no error emits exactly one
\* response, on every path: at once when it is answered 405 or 500 or has
\* no delay, and after its delay otherwise; none is answered twice and none
\* waits forever.
C33_ExactlyOneResponse ==
    /\ []OneResponseAtMost
    /\ \A r \in 1..MaxLive :
          (r \in Requests /\ reqs[r].pc # "failed") ~> Answered(r)
    /\ \A r \in 1..MaxLive : [](Answered(r) => []Answered(r))

\* a generated response and a cache hit, both delayed, have both been sent
C33_Witness ==
    /\ Len(reqs) = 2
    /\ Truthy(endpoint.delay)
    /\ "cacheSet" \in reqs[1].stages
    /\ "cacheGet" \in reqs[2].stages
    /\ Answered(1)
    /\ Answered(2)

----------------------------------------------------------------------------
(* Further properties of value resolution, checked under SpecResolve.      *)

\* C34: a request that fails while it generates is local to itself: it
\* writes no cache entry and changes none, and it leaves the generator's
\* seed state as it was before the request.
C34_FailureIsLocal ==
    [][(Arrived /\ New.kind = "throw") =>
          /\ cacheStore' = cacheStore
          /\ fakerState' = fakerState
      ]_vars

\* the definition holds, below the top level, a string with '..'
RECURSIVE HasEscapedLeaf(_, _)
HasEscapedLeaf(value, top) ==
    CASE value.k = "str" -> ~top /\ HasDouble(value.v)
      [] value.k = "arr" ->
            \E i \in 1..Len(value.v) : HasEscapedLeaf(value.v[i], FALSE)
      [] value.k = "obj" ->
            \E i \in 1..Len(value.v) : HasEscapedLeaf(value.v[i][2], FALSE)
      [] OTHER -> FALSE

\* the definition holds a string that the escaping rule, applied at every
\* depth, reads as a path, and that names no member of the generator
RECURSIVE BadPathAtAnyDepth(_, _)
BadPathAtAnyDepth(value, top) ==
    CASE value.k = "str" ->
            /\ ~HasDouble(value.v)
            /\ top => HasDot(value.v)
            /\ MemberAt(value.v).k = "undefined"
      [] value.k = "arr" ->
            \E i \in 1..Len(value.v) : BadPathAtAnyDepth(value.v[i], FALSE)
      [] value.k = "obj" ->
            \E i \in 1..Len(value.v) : BadPathAtAnyDepth(value.v[i][2], FALSE)
      [] OTHER -> FALSE

\* val holds, wherever def holds a string with '..', that string with each
\* '..' replaced by one '.'
RECURSIVE LiteralsKept(_, _)
LiteralsKept(def, val) ==
    CASE def.k = "str" ->
            HasDouble(def.v) => val = Str(Unescaped(def.v, 1))
      [] def.k = "arr" ->
            /\ val.k = "arr"
            /\ Len(val.v) = Len(def.v)
            /\ \A i \in 1..Len(def.v) : LiteralsKept(def.v[i], val.v[i])
      [] def.k = "obj" ->
            /\ val.k = "obj"
            /\ Len(val.v) = Len(def.v)
            /\ \A i \in 1..Len(def.v) :
                  LiteralsKept(def.v[i][2], val.v[i][2])
      [] OTHER -> TRUE

\* C35: the escaping rule holds at every depth of responseProps: a string
\* with '..' inside a nested mapping or array is not looked up as a
\* generator path; unless some path of the definition names no generator
\* member the request succeeds, and every record holds the string with each
\* '..' unescaped to '.'.
C35_EscapingAtEveryDepth ==
    [][( /\ Arrived
         /\ Generates(New)
         /\ WindowHoldsRecord(New)
         /\ \E j \in 1..Len(Props) : HasEscapedLeaf(Props[j][2], TRUE)
         /\ \A j \in 1..Len(Props) : ~BadPathAtAnyDepth(Props[j][2], TRUE) ) =>
           /\ New.kind = "send"
           /\ \A i \in 1..Len(RecordsOf(New)), j \in 1..Len(Props) :
                 LiteralsKept(Props[j][2],
                              Prop(RecordsOf(New)[i], Props[j][1]))
      ]_vars

----------------------------------------------------------------------------
(* Further properties of the cache, checked under Spec.                    *)

\* C36: a cache entry is write-once while it is present: no step changes
\* the value stored under a key, and a request stores only under a key it
\* found absent, in the step of its own lookup.
C36_WriteOnce ==
    [][/\ \A key \in (DOMAIN cacheStore) \cap (DOMAIN cacheStore') :
             cacheStore'[key] = cacheStore[key]
       /\ (Arrived /\ "cacheSet" \in New.stages) =>
             /\ CacheKey(endpoint, New.query) \notin DOMAIN cacheStore
             /\ cacheStore'[CacheKey(endpoint, New.query)] = New.send.data
       /\ ~Arrived => cacheStore' = cacheStore
      ]_vars

\* an unseeded caching endpoint has answered two requests with the same
\* query string, and the entry is still the one the first stored though
\* the generator has moved on
C36_Witness ==
    /\ Len(reqs) = 2
    /\ Truthy(endpoint.cache)
    /\ endpoint.seed = Undefined
    /\ StoredBy(1)
    /\ reqs[2].query = reqs[1].query
    /\ ReachedLookup(reqs[2])
    /\ ~StoredBy(2)
    /\ cacheStore[CacheKey(endpoint, reqs[1].query)] = reqs[1].send.data
    /\ reqs[1].pc = "done" /\ reqs[2].pc = "done"

\* the request is answered by the method check, by error injection, by a
\* matching condition or by the static response
AnsweredEarly(r) ==
    \/ NotAllowed(r)
    \/ Injected(r)
    \/ AlwaysInjected
    \/ ~NoMatch(r)
    \/ Truthy(endpoint.staticResponse)

\* C37: only generated payloads enter the cache: a request answered by the
\* method check, by error injection, by a matching condition or by the
\* static response creates no cache entry and changes none, with cache
\* enabled or not; and whenever the cache changes, the arriving request
\* generated the value that is stored.
C37_OnlyGeneratedCached ==
    [][/\ (Arrived /\ AnsweredEarly(New)) =>
             /\ cacheStore' = cacheStore
             /\ "cacheSet" \notin New.stages
       /\ cacheStore' # cacheStore =>
             /\ Arrived
             /\ Generates(New)
             /\ cacheStore'[CacheKey(endpoint, New.query)] = New.send.data
      ]_vars

\* a caching endpoint with conditions and a static response has answered a
\* request by a condition and another by the static response, and its cache
\* is empty
C37_Witness ==
    /\ Len(reqs) = 2
    /\ Truthy(endpoint.cache)
    /\ Truthy(endpoint.staticResponse)
    /\ ~NoMatch(reqs[1])
    /\ reqs[1].send.data # endpoint.staticResponse
    /\ reqs[2].send.data = endpoint.staticResponse
    /\ reqs[1].pc = "done" /\ reqs[2].pc = "done"
    /\ cacheStore = <<>>

----------------------------------------------------------------------------
(* Properties of the envelope, checked under SpecListing.                  *)

\* the names of the request's search, filter and sort parameters
TransformNames(r) ==
    {sQ, sFilter, sSort, sOrder, SortKey}
    \cup (IF HasParam(r, sFilter) THEN {SearchParamsGet(r.query, sFilter).v}
          ELSE {})

\* the envelope the endpoint sends for a query from the present seed state
EnvelopeFor(query) ==
    Handle(endpoint, [method |-> GET, headers |-> EmptyObj, query |-> query],
           0, <<>>, fakerState).send.data

MetadataKeys == {sPage, sPerPage, sTotal, sTotalPages}

\* the number of ids in the page window the envelope reports
WindowSize(body) ==
    IF WindowEnd(body) < WindowStart(body) THEN 0
    ELSE WindowEnd(body) - WindowStart(body) + 1

\* no record stands in the list twice
NoneTwice(records) ==
    \A i \in 1..Len(records), j \in 1..Len(records) :
        records[i] = records[j] => i = j

\* C38: search, filter and sort act on the records of the page window only
\* and leave the envelope's metadata alone: page, per_page, total and
\* total_pages are those of the same request without the search, filter and
\* sort parameters, and the data holds records generated for the window,
\* none of them twice, and no more than the window has ids.
C38_MetadataUntouched ==
    [][(Arrived /\ Listed(New)) =>
          /\ \E bare \in {EnvelopeFor(Without(New.query,
                                              TransformNames(New)))} :
                \A key \in MetadataKeys :
                   Prop(New.send.data, key) = Prop(bare, key)
          /\ \E all \in {GeneratedFor(New)} :
                AllAmong(DataOf(New.send.data), all)
          /\ NoneTwice(DataOf(New.send.data))
          /\ Len(DataOf(New.send.data)) <= WindowSize(New.send.data)
      ]_vars

\* page 2 of four records, three to a page, searched for 'a': the one
\* record of the window did not match, and the envelope still reports
\* total 4 on 2 pages
C38_Witness ==
    \E r \in Requests :
        /\ Listed(reqs[r])
        /\ endpoint.perPage = Num(3)
        /\ SearchParamsGet(reqs[r].query, sPage) = Str(<<"2">>)
        /\ HasParam(reqs[r], sQ)
        /\ DataOf(reqs[r].send.data) = <<>>
        /\ Prop(reqs[r].send.data, sPage) = Num(2)
        /\ Prop(reqs[r].send.data, sPerPage) = Num(3)
        /\ Prop(reqs[r].send.data, sTotal) = Num(4)
        /\ Prop(reqs[r].send.data, sTotalPages) = Num(2)

----------------------------------------------------------------------------
(* Further properties of seeding, checked under Spec.                      *)

\* what the endpoint generates for the request's URL when the process-wide
\* generator is in state s and nothing is cached
FreshResult(r, s) ==
    Handle(endpoint,
           [method |-> r.method, headers |-> r.headers, query |-> r.query],
           0, <<>>, s).send.data

\* C39: on an endpoint with a configured seed, whatever integer it is, a
\* generated response is a function of the endpoint's configuration and the
\* request URL alone: it is what the request gets from any state the
\* generator may have been left in by the requests handled before it, to
\* this or any other endpoint.
C39_SeededIndependence ==
    [][( /\ Arrived
         /\ endpoint.seed.k = "num"
         /\ Generates(New)
         /\ New.kind = "send" ) =>
           \A s \in 0..(FakerMod - 1) : New.send.data = FreshResult(New, s)
      ]_vars

====
